---- MODULE Spec2Model ----
(***************************************************************************)
(* A model of striker's configuration framework (striker/common/config.py):*)
(* the copy-on-write overlay COWDict, the loader's deep merge and          *)
(* instance-level load, Binding memoization, and schema invalidation.      *)
(*                                                                         *)
(* Python objects live in heaps indexed by identity:                       *)
(*   heap  - the plain dict objects (a dict is a function Keys -> Val,     *)
(*           Absent marking a key the dict does not hold);                 *)
(*   cows  - the COWDict objects.                                          *)
(* A value is a tagged record: S(n) a scalar, D(id) a reference to the     *)
(* dict heap[id], C(id) a reference to the COWDict cows[id], Unset the     *)
(* module's _unset sentinel.                                               *)
(***************************************************************************)
EXTENDS Integers, Sequences, FiniteSets, TLC

VARIABLES
    heap,       \* Seq of dict objects
    cows,       \* Seq of COWDict objects
    lastOp,     \* the operation the last step performed and its result
    nops,       \* number of operations performed so far
    inst,       \* the Config instance: its _xlated cache (its _raw is heap[1])
    sch,        \* the schema objects: Config subclasses and Option instances
    fs,         \* the file system: what each path names
    gen,        \* the frame of the backoff generator
    call,       \* the frame of the running Environment.__call__
    log,        \* the yields, sleeps, command runs and retry calls so far
    mrg,        \* the frame of the running _merge_dict call
    inv         \* the frame of the running _schema_invalidate call

vars == <<heap, cows, lastOp, nops, inst, sch, fs, gen, call, log, mrg,
          inv>>

----------------------------------------------------------------------------
(* Bounds *)

MaxScalar == 2
MaxObj == 4
MaxCow == 4
MaxOps == 5

\* the parts of the state a specification does not use
NoInst == [xlated |-> <<>>]
NoSchema == <<>>
NoFiles == <<>>
NoGen == [pc |-> "none", max_tries |-> 0, i |-> 0, sleep |-> 0]
Unbound == -2      \* a local variable no statement has assigned yet
NoInv == [pc |-> "none", queue |-> <<>>, seen |-> {}, enq |-> <<>>,
          popped |-> <<>>]
NoMerge == [pc |-> "none", queue |-> <<>>, seen |-> {}, raised |-> <<>>,
            order |-> <<>>, h0 |-> <<>>, worked |-> {}, twice |-> {}]
NoCall == [pc |-> "none", retry |-> FALSE, arg |-> 0, max_tries |-> 0,
           do_raise |-> FALSE, trial |-> 0, result |-> Unbound,
           outcome |-> "none"]

----------------------------------------------------------------------------
(* Values *)

Keys == {"a", "b"}
Scalars == 1..MaxScalar

Absent == [t |-> "a", v |-> 0]
Unset == [t |-> "u", v |-> 0]
KeyErr == [t |-> "e", v |-> 0]
S(n) == [t |-> "s", v |-> n]
D(id) == [t |-> "d", v |-> id]
C(id) == [t |-> "c", v |-> id]

EmptyDict == [k \in Keys |-> Absent]
NoLook == [k \in Keys |-> 0]

\* isinstance(value, dict): a COWDict is a MutableMapping, not a dict
IsDict(value) == value.t = "d"

\* dict.__eq__: two values are equal when they are the same scalar or
\* dicts with equal contents, compared recursively
RECURSIVE DeepEq(_, _, _)
DeepEq(h, v1, v2) ==
    IF v1.t = "d" /\ v2.t = "d"
    THEN \A k \in Keys : DeepEq(h, h[v1.v][k], h[v2.v][k])
    ELSE v1 = v2

\* The nested contents of a value, with dict references replaced by what
\* they hold, as the set of <<path, tag, scalar>> entries of the tree (used
\* to compare mapping trees by content)
RECURSIVE Flat(_, _, _)
Flat(h, value, path) ==
    IF value.t = "d"
    THEN {<<path, "m", 0>>} \cup
         UNION {Flat(h, h[value.v][k], Append(path, k)) :
                    k \in {x \in Keys : h[value.v][x] # Absent}}
    ELSE {<<path, value.t, value.v>>}

DeepVal(h, value) == Flat(h, value, <<>>)

\* The dict objects reachable from dict id (id included)
RECURSIVE Reach(_, _)
Reach(h, id) ==
    {id} \cup UNION {Reach(h, h[id][k].v) : k \in {x \in Keys : IsDict(h[id][x])}}

----------------------------------------------------------------------------
(* COWDict *)

NewCow(orig, root) ==
    [orig |-> orig, new |-> EmptyDict, look |-> NoLook, root |-> root,
     children |-> <<>>]

\* COWDict.__init__ on cows = c: the new object gets the next identity and
\* is appended to its root's list of children
CowInit(c, orig, root) ==
    LET id == Len(c) + 1
        c1 == Append(c, NewCow(orig, root))
    IN  IF root = 0 THEN c1 ELSE [c1 EXCEPT ![root].children = Append(@, id)]

\* self._new.get(key, self._orig.get(key, _unset))
CowLookup(c, h, n, key) ==
    IF c[n].new[key] # Absent THEN c[n].new[key]
    ELSE IF h[c[n].orig][key] # Absent THEN h[c[n].orig][key]
    ELSE Unset

\* Every COWDict operation below yields the COWDict objects (c) and the
\* dict objects (h) as it leaves them, and its result (r).

\* COWDict.__getitem__ that makes itself the root of the child it creates
CowGetItem_SelfRoot(c, h, n, key) ==
    IF c[n].look[key] # 0
    THEN [c |-> c, h |-> h, r |-> C(c[n].look[key])]
    ELSE LET value == CowLookup(c, h, n, key) IN
         IF value = Unset THEN [c |-> c, h |-> h, r |-> KeyErr]
         ELSE IF IsDict(value)
         THEN LET id == Len(c) + 1
                  c1 == CowInit(c, value.v, n)
              IN  [c |-> [c1 EXCEPT ![n].look[key] = id], h |-> h,
                   r |-> C(id)]
         ELSE [c |-> c, h |-> h, r |-> value]

\* COWDict.__getitem__
CowGetItem(c, h, n, key) ==
    IF c[n].look[key] # 0
    THEN [c |-> c, h |-> h, r |-> C(c[n].look[key])]
    ELSE LET value == CowLookup(c, h, n, key) IN
         IF value = Unset THEN [c |-> c, h |-> h, r |-> KeyErr]
         ELSE IF IsDict(value)
         THEN LET id == Len(c) + 1
                  c1 == CowInit(c, value.v,
                                IF c[n].root = 0 THEN n ELSE c[n].root)
              IN  [c |-> [c1 EXCEPT ![n].look[key] = id], h |-> h,
                   r |-> C(id)]
         ELSE [c |-> c, h |-> h, r |-> value]

\* COWDict.__setitem__ writing through to the original dict
CowSetItem_WriteThrough(c, h, n, key, value) ==
    [c |-> [c EXCEPT ![n].look[key] = 0], h |-> [h EXCEPT ![c[n].orig][key] = value],
     r |-> Absent]

\* COWDict.__setitem__ that records every value as an override
CowSetItem_AlwaysRecord(c, h, n, key, value) ==
    [c |-> [c EXCEPT ![n].look[key] = 0, ![n].new[key] = value],
     h |-> h, r |-> Absent]

\* COWDict.__setitem__
CowSetItem(c, h, n, key, value) ==
    IF h[c[n].orig][key] # Absent /\ DeepEq(h, h[c[n].orig][key], value)
    THEN [c |-> [c EXCEPT ![n].look[key] = 0, ![n].new[key] = Absent],
          h |-> h, r |-> Absent]
    ELSE [c |-> [c EXCEPT ![n].look[key] = 0, ![n].new[key] = value],
          h |-> h, r |-> Absent]

\* COWDict.__delitem__ that masks the key whatever the original holds
CowDelItem_AlwaysMask(c, h, n, key) ==
    [c |-> [c EXCEPT ![n].look[key] = 0, ![n].new[key] = Unset],
     h |-> h, r |-> Absent]

\* COWDict.__delitem__
CowDelItem(c, h, n, key) ==
    IF h[c[n].orig][key] # Absent
    THEN [c |-> [c EXCEPT ![n].look[key] = 0, ![n].new[key] = Unset],
          h |-> h, r |-> Absent]
    ELSE [c |-> [c EXCEPT ![n].look[key] = 0, ![n].new[key] = Absent],
          h |-> h, r |-> Absent]

\* COWDict._keys
CowKeys(c, h, n) ==
    {k \in Keys : h[c[n].orig][k] # Absent} \cup
    {k \in Keys : c[n].new[k] # Absent}

\* COWDict.__iter__
CowIter(c, h, n) == {k \in CowKeys(c, h, n) : c[n].new[k] # Unset}

\* COWDict.__len__
CowLen(c, h, n) ==
    Cardinality(CowKeys(c, h, n)) -
    Cardinality({k \in Keys : c[n].new[k] = Unset})

\* COWDict._apply that replaces the original dict's contents by the
\* overrides: keys without an override are dropped
CowApplyNode_Replace(c, h, n) ==
    [h EXCEPT ![c[n].orig] =
        [k \in Keys |->
            IF c[n].new[k] \in {Absent, Unset} THEN Absent ELSE c[n].new[k]]]

\* COWDict._apply: the dict heap after the overrides of node n are written
\* into its original dict
CowApplyNode(c, h, n) ==
    [h EXCEPT ![c[n].orig] =
        [k \in Keys |->
            IF c[n].new[k] = Absent THEN @[k]
            ELSE IF c[n].new[k] = Unset THEN Absent
            ELSE c[n].new[k]]]

\* the loop over self._children of COWDict.apply, skipped
CowApplyChildren_None(c, h, kids) == h

\* the loop over self._children of COWDict.apply
RECURSIVE CowApplyChildren(_, _, _)
CowApplyChildren(c, h, kids) ==
    IF kids = <<>> THEN h
    ELSE CowApplyChildren(c, CowApplyNode(c, h, Head(kids)), Tail(kids))

\* COWDict.apply
CowApply(c, h, n) ==
    [h |-> CowApplyChildren(c, CowApplyNode(c, h, n), c[n].children),
     c |-> [c EXCEPT ![n].new = EmptyDict, ![n].look = NoLook,
                     ![n].children = <<>>],
     r |-> Absent]

\* The COWDict objects reachable from node n through the lookaside caches:
\* the child overlays currently materialized under n, at any depth
RECURSIVE Live(_, _)
Live(c, n) ==
    {n} \cup UNION {Live(c, c[n].look[k]) : k \in {x \in Keys : c[n].look[x] # 0}}

----------------------------------------------------------------------------
(* Load._merge_dict.  lhs is a reference to the destination mapping, D(id) *)
(* for a dict or C(id) for a COWDict; rhs is the id of the source dict.    *)
(* The mapping operations the merge performs on lhs dispatch on its type.  *)

\* key in lhs: dict.__contains__, or Mapping.__contains__ for a COWDict,
\* which calls __getitem__ and catches KeyError
Contains(c, h, lhs, key) ==
    IF lhs.t = "d"
    THEN [c |-> c, h |-> h, r |-> h[lhs.v][key] # Absent]
    ELSE LET g == CowGetItem(c, h, lhs.v, key)
         IN  [c |-> g.c, h |-> g.h, r |-> g.r # KeyErr]

\* lhs[key]
GetItem(c, h, lhs, key) ==
    IF lhs.t = "d"
    THEN [c |-> c, h |-> h, r |-> h[lhs.v][key]]
    ELSE CowGetItem(c, h, lhs.v, key)

\* lhs[key] = value
SetItem(c, h, lhs, key, value) ==
    IF lhs.t = "d"
    THEN [c |-> c, h |-> [h EXCEPT ![lhs.v][key] = value], r |-> Absent]
    ELSE CowSetItem(c, h, lhs.v, key, value)

\* key_path = [key]: the path from the root is dropped
KeyPath_LeafOnly(path, key) == <<key>>

\* key_path = path + [key]
KeyPath(path, key) == Append(path, key)

\* "/%s: type mismatch" % '/'.join(key_path), as the sequence of its pieces
RECURSIVE JoinPath(_)
JoinPath(key_path) ==
    IF key_path = <<>> THEN <<>>
    ELSE IF Len(key_path) = 1 THEN <<Head(key_path)>>
    ELSE <<Head(key_path), "/">> \o JoinPath(Tail(key_path))

MismatchMsg(key_path) == <<"/">> \o JoinPath(key_path) \o <<": type mismatch">>

\* The state of one _merge_dict call: the objects (c, h), the work queue,
\* the seen set of (id(lhs), id(rhs)) pairs, and the ConfigException raised
\* ("" while none is)
MergeState(c, h, lhs, rhs) ==
    [c |-> c, h |-> h,
     queue |-> <<[lhs |-> lhs, rhs |-> rhs, path |-> <<>>]>>,
     seen |-> {<<lhs, rhs>>},
     raised |-> <<>>]

\* one pass of the loop over rhs.items() in which two dicts under the same
\* key are not queued: the source dict replaces the destination's
MergeKey_Overwrite(m, lhs, key, rh_value, path) ==
    LET w == SetItem(m.c, m.h, lhs, key, rh_value)
    IN  [m EXCEPT !.c = w.c, !.h = w.h]

\* the body for (key, rh_value) in which two dicts under the same key are
\* queued whether or not the pair was seen
MergeKey_NoSeen(m, lhs, key, rh_value, path) ==
    LET has == Contains(m.c, m.h, lhs, key) IN
    IF ~has.r
    THEN LET w == SetItem(has.c, has.h, lhs, key, rh_value)
         IN  [m EXCEPT !.c = w.c, !.h = w.h]
    ELSE LET g == GetItem(has.c, has.h, lhs, key)
             key_path == KeyPath(path, key)
         IN  IF IsDict(g.r) # IsDict(rh_value)
             THEN [m EXCEPT !.c = g.c, !.h = g.h,
                            !.raised = MismatchMsg(key_path)]
             ELSE IF ~IsDict(g.r)
             THEN LET w == SetItem(g.c, g.h, lhs, key, rh_value)
                  IN  [m EXCEPT !.c = w.c, !.h = w.h]
             ELSE [m EXCEPT !.c = g.c, !.h = g.h,
                      !.queue = Append(@, [lhs |-> g.r, rhs |-> rh_value.v,
                                           path |-> key_path]),
                      !.seen = @ \cup {<<g.r, rh_value.v>>}]

\* one pass of the loop over rhs.items(): the body for (key, rh_value)
MergeKey(m, lhs, key, rh_value, path) ==
    LET has == Contains(m.c, m.h, lhs, key) IN
    IF ~has.r
    THEN LET w == SetItem(has.c, has.h, lhs, key, rh_value)
         IN  [m EXCEPT !.c = w.c, !.h = w.h]
    ELSE LET g == GetItem(has.c, has.h, lhs, key)
             lh_value == g.r
             lh_dict == IsDict(lh_value)
             rh_dict == IsDict(rh_value)
             key_path == KeyPath(path, key)
         IN  IF lh_dict # rh_dict
             THEN [m EXCEPT !.c = g.c, !.h = g.h,
                            !.raised = MismatchMsg(key_path)]
             ELSE IF ~lh_dict
             THEN LET w == SetItem(g.c, g.h, lhs, key, rh_value)
                  IN  [m EXCEPT !.c = w.c, !.h = w.h]
             ELSE LET queue_id == <<lh_value, rh_value.v>> IN
                  IF queue_id \notin m.seen
                  THEN [m EXCEPT !.c = g.c, !.h = g.h,
                           !.queue = Append(@, [lhs |-> lh_value,
                                                rhs |-> rh_value.v,
                                                path |-> key_path]),
                           !.seen = @ \cup {queue_id}]
                  ELSE [m EXCEPT !.c = g.c, !.h = g.h]

\* the loop over rhs.items(): items is the source dict, ks the keys still to
\* visit in the dict's iteration order; an exception ends the loop
RECURSIVE MergeItems(_, _, _, _, _)
MergeItems(m, lhs, items, path, ks) ==
    IF ks = <<>> \/ m.raised # <<>> THEN m
    ELSE IF items[Head(ks)] = Absent
    THEN MergeItems(m, lhs, items, path, Tail(ks))
    ELSE MergeItems(MergeKey(m, lhs, Head(ks), items[Head(ks)], path),
                    lhs, items, path, Tail(ks))

\* the loop over the work queue
RECURSIVE MergeLoop(_, _)
MergeLoop(m, order) ==
    IF m.queue = <<>> \/ m.raised # <<>> THEN m
    ELSE LET work == Head(m.queue)
             m1 == [m EXCEPT !.queue = Tail(@)]
         IN  MergeLoop(MergeItems(m1, work.lhs, m1.h[work.rhs], work.path,
                                  order), order)

\* Load._merge_dict(lhs, rhs); order is the iteration order of dict keys
MergeDict(c, h, lhs, rhs, order) == MergeLoop(MergeState(c, h, lhs, rhs), order)

\* The iteration orders a dict may have
KeyOrders == { <<"a", "b">>, <<"b", "a">> }

----------------------------------------------------------------------------
(* The reference deep merge, on mapping trees given by content (DeepVal)   *)

IsM(F) == <<(<<>>), "m", 0>> \in F

\* the subtree under key k, and a tree placed under key k
Sub(F, k) == {<<Tail(e[1]), e[2], e[3]>> : e \in {x \in F : x[1] # <<>> /\ Head(x[1]) = k}}
Under(k, F) == {<<(<<k>>) \o e[1], e[2], e[3]>> : e \in F}

\* some key holds a mapping on exactly one side, at any depth
RECURSIVE RConflict(_, _)
RConflict(Fd, Fs) ==
    \E k \in Keys :
        LET d == Sub(Fd, k)
            s == Sub(Fs, k)
        IN  /\ d # {}
            /\ s # {}
            /\ \/ IsM(d) # IsM(s)
               \/ IsM(d) /\ IsM(s) /\ RConflict(d, s)

\* the paths of the keys that hold a mapping on exactly one side
RECURSIVE RConflictPaths(_, _)
RConflictPaths(Fd, Fs) ==
    UNION { LET d == Sub(Fd, k)
                s == Sub(Fs, k)
            IN  IF d = {} \/ s = {} THEN {}
                ELSE IF IsM(d) # IsM(s) THEN {<<k>>}
                ELSE IF IsM(d)
                THEN {<<k>> \o p : p \in RConflictPaths(d, s)}
                ELSE {} : k \in Keys }

\* a key only in the destination keeps its value, a key only in the source
\* is copied, two mappings are merged recursively, otherwise the source wins
RECURSIVE RMerge(_, _)
RMerge(Fd, Fs) ==
    {<<(<<>>), "m", 0>>} \cup
    UNION { LET d == Sub(Fd, k)
                s == Sub(Fs, k)
            IN  Under(k, IF s = {} THEN d
                         ELSE IF d = {} THEN s
                         ELSE IF IsM(d) /\ IsM(s) THEN RMerge(d, s)
                         ELSE s) : k \in Keys }

\* the subtree at a path
RECURSIVE SubAt(_, _)
SubAt(F, path) == IF path = <<>> THEN F ELSE SubAt(Sub(F, Head(path)), Tail(path))

----------------------------------------------------------------------------
(* The overlay as a state machine: a client holding the root COWDict and  *)
(* the child COWDicts it has read performs reads, writes, deletes and     *)
(* apply() in any order.                                                  *)

Op(op, n, k, r) == [op |-> op, n |-> n, k |-> k, r |-> r]

\* The heaps an overlay is opened on: heap[1] is the root's original dict
InitHeaps ==
    { <<[a |-> D(2), b |-> S(1)], [a |-> S(1), b |-> Absent]>>,
      <<[a |-> D(2), b |-> Absent], [a |-> D(3), b |-> S(2)],
        [a |-> S(1), b |-> Absent]>> }

\* The dict literals a client writes: each write of one stores a new object
DictLits == { EmptyDict, [a |-> S(1), b |-> Absent] }

CowSpecInit ==
    /\ heap \in InitHeaps
    /\ cows = CowInit(<<>>, 1, 0)
    /\ lastOp = Op("init", 0, "a", Absent)
    /\ nops = 0
    /\ fs = NoFiles /\ inv = NoInv /\ mrg = NoMerge /\ gen = NoGen /\ call = NoCall /\ log = <<>>
    /\ inst = NoInst
    /\ sch = NoSchema

\* value = cow[key]
Read(n, key) ==
    LET g == CowGetItem(cows, heap, n, key) IN
    /\ nops < MaxOps
    /\ Len(g.c) <= MaxCow
    /\ cows' = g.c
    /\ heap' = g.h
    /\ lastOp' = Op("read", n, key, g.r)
    /\ nops' = nops + 1
    /\ UNCHANGED <<gen, call, log, mrg, inv, fs, inst, sch>>

\* cow[key] = scalar
WriteScalar(n, key, s) ==
    LET w == CowSetItem(cows, heap, n, key, S(s)) IN
    /\ nops < MaxOps
    /\ cows' = w.c
    /\ heap' = w.h
    /\ lastOp' = Op("write", n, key, S(s))
    /\ nops' = nops + 1
    /\ UNCHANGED <<gen, call, log, mrg, inv, fs, inst, sch>>

\* cow[key] = {...}: the dict literal is a new object
WriteDict(n, key, lit) ==
    LET id == Len(heap) + 1
        w == CowSetItem(cows, Append(heap, lit), n, key, D(id))
    IN  /\ nops < MaxOps
        /\ id <= MaxObj
        /\ heap' = w.h
        /\ cows' = w.c
        /\ lastOp' = Op("write", n, key, D(id))
        /\ nops' = nops + 1
        /\ UNCHANGED <<gen, call, log, mrg, inv, fs, inst, sch>>

\* del cow[key]
Delete(n, key) ==
    LET w == CowDelItem(cows, heap, n, key) IN
    /\ nops < MaxOps
    /\ cows' = w.c
    /\ heap' = w.h
    /\ lastOp' = Op("delete", n, key, Absent)
    /\ nops' = nops + 1
    /\ UNCHANGED <<gen, call, log, mrg, inv, fs, inst, sch>>

\* root.apply()
Apply ==
    LET r == CowApply(cows, heap, 1) IN
    /\ nops < MaxOps
    /\ heap' = r.h
    /\ cows' = r.c
    /\ lastOp' = Op("apply", 1, "a", Absent)
    /\ nops' = nops + 1
    /\ UNCHANGED <<gen, call, log, mrg, inv, fs, inst, sch>>

CowNext ==
    \/ \E n \in 1..Len(cows), k \in Keys : Read(n, k)
    \/ \E n \in 1..Len(cows), k \in Keys, s \in Scalars : WriteScalar(n, k, s)
    \/ \E n \in 1..Len(cows), k \in Keys, lit \in DictLits : WriteDict(n, k, lit)
    \/ \E n \in 1..Len(cows), k \in Keys : Delete(n, k)
    \/ Apply

SpecCow == CowSpecInit /\ [][CowNext]_vars

\* C1: a read, write or delete on the overlay root or on any child overlay
\* leaves every dict of the original mapping tree (the root's original dict
\* and every dict nested in it) as it was; only apply() changes them.
C1_OriginalUntouchedUntilApply ==
    [][lastOp'.op # "apply" =>
        \A i \in Reach(heap, cows[1].orig) : heap'[i] = heap[i]]_vars

\* a write through a child overlay has recorded an override that differs from
\* what the original nested dict holds
C1_Witness ==
    /\ lastOp.op = "write"
    /\ lastOp.n > 1
    /\ cows[lastOp.n].orig \in Reach(heap, cows[1].orig)
    /\ cows[lastOp.n].new[lastOp.k] = lastOp.r
    /\ heap[cows[lastOp.n].orig][lastOp.k] # lastOp.r

C21_WriteResetsOrRecords ==
    [][lastOp'.op = "write" =>
        LET n == lastOp'.n
            k == lastOp'.k
            o == cows[n].orig
        IN  /\ cows'[n].look[k] = 0
            /\ heap'[o] = heap[o]
            /\ IF heap[o][k] # Absent /\ DeepEq(heap', heap[o][k], lastOp'.r)
               THEN cows'[n].new[k] = Absent
               ELSE cows'[n].new[k] = lastOp'.r
            /\ \A j \in Keys \ {k} :
                  cows'[n].new[j] = cows[n].new[j]
                  /\ cows'[n].look[j] = cows[n].look[j]]_vars

\* a write of the original's own value has just removed a tombstone
C21_Witness ==
    /\ lastOp.op = "write"
    /\ heap[cows[lastOp.n].orig][lastOp.k] = lastOp.r
    /\ cows[lastOp.n].new[lastOp.k] = Absent
    /\ \E j \in Keys \ {lastOp.k} : cows[lastOp.n].new[j] = Unset
    /\ nops >= 3

\* C22: deleting a key that exists in the original mapping records a
\* tombstone for it (replacing any pending override); deleting a key that
\* exists only as a pending override removes the override and records no
\* tombstone; in both cases the materialized child for the key is dropped
\* and a read of the key then fails with not-found.
C22_DeleteMasksOrRemoves ==
    [][lastOp'.op = "delete" =>
        LET n == lastOp'.n
            k == lastOp'.k
            o == cows[n].orig
        IN  /\ heap[o][k] # Absent => cows'[n].new[k] = Unset
            /\ heap[o][k] = Absent => cows'[n].new[k] = Absent
            /\ cows'[n].look[k] = 0
            /\ CowGetItem(cows', heap', n, k).r = KeyErr]_vars

\* an override for a key the original lacks has just been deleted: the
\* overlay holds nothing for the key
C22_Witness ==
    /\ lastOp.op = "delete"
    /\ heap[cows[lastOp.n].orig][lastOp.k] = Absent
    /\ cows[lastOp.n].new[lastOp.k] = Absent
    /\ nops >= 2
    /\ \E j \in Keys \ {lastOp.k} : cows[lastOp.n].new[j] = Unset

\* the keys a node is to yield: those of its original or of its overrides
\* whose override is not a tombstone
Yielded(n) ==
    {k \in Keys : /\ heap[cows[n].orig][k] # Absent \/ cows[n].new[k] # Absent
                  /\ cows[n].new[k] # Unset}

\* iteration, len() and reads of node n agree
Agree(n) ==
    /\ CowIter(cows, heap, n) = Yielded(n)
    /\ CowLen(cows, heap, n) = Cardinality(CowIter(cows, heap, n))
    /\ \A k \in Keys :
          CowGetItem(cows, heap, n, k).r # KeyErr <=> k \in CowIter(cows, heap, n)

\* The overlay after a first transaction: the client has read root["a"] and
\* root["a"]["a"], called root.apply(), and still holds what it read
FirstTransaction(h) ==
    LET g1 == CowGetItem(CowInit(<<>>, 1, 0), h, 1, "a")
        g2 == CowGetItem(g1.c, g1.h, 2, "a")
    IN  CowApply(g2.c, g2.h, 1)

HeldInit ==
    /\ \E h \in InitHeaps :
          /\ heap = FirstTransaction(h).h
          /\ cows = FirstTransaction(h).c
    /\ lastOp = Op("apply", 1, "a", Absent)
    /\ nops = 0
    /\ fs = NoFiles /\ inv = NoInv /\ mrg = NoMerge /\ gen = NoGen /\ call = NoCall /\ log = <<>>
    /\ inst = NoInst
    /\ sch = NoSchema

SpecHeld == HeldInit /\ [][CowNext]_vars

\* C23: in every overlay state reachable through reads, writes, deletes and
\* apply(), iteration yields exactly the keys of the original mapping or of
\* the overrides whose override is not a tombstone, len() equals the number
\* of keys iteration yields, and reading a key succeeds exactly when
\* iteration yields that key.
C23_IterLenReadAgree == \A n \in 1..Len(cows) : Agree(n)

\* C24: a read returns, in this order of priority: the child overlay already
\* materialized for the key; else the pending override, failing with
\* not-found when it is a tombstone; else the original value; else
\* not-found.  A nested mapping is returned as a child overlay that is
\* remembered for the key and whose root is the root of the whole overlay
\* tree, never an intermediate node and never itself.
C24_ReadPriority ==
    [][lastOp'.op = "read" =>
        LET n == lastOp'.n
            k == lastOp'.k
            r == lastOp'.r
            over == cows[n].new[k]
            base == heap[cows[n].orig][k]
            value == IF over # Absent THEN over ELSE base
            id == Len(cows) + 1
        IN  /\ heap' = heap
            /\ IF cows[n].look[k] # 0
               THEN r = C(cows[n].look[k]) /\ cows' = cows
               ELSE IF over = Unset \/ value = Absent
               THEN r = KeyErr /\ cows' = cows
               ELSE IF value.t = "d"
               THEN /\ r = C(id)
                    /\ Len(cows') = id
                    /\ cows'[n].look[k] = id
                    /\ cows'[id].orig = value.v
                    /\ cows'[id].new = EmptyDict /\ cows'[id].look = NoLook
                    /\ cows'[id].root \notin {0, id}
                    /\ cows'[cows'[id].root].root = 0
                    /\ cows'[id].root = (IF cows[n].root = 0 THEN n
                                         ELSE cows[n].root)
                    /\ cows'[cows'[id].root].children
                         = Append(cows[cows'[id].root].children, id)
               ELSE r = value /\ cows' = cows]_vars

\* a read through a child overlay has just materialized a grandchild for a
\* nested dict: its root is the root of the tree, not the child it was read
\* from
C24_Witness ==
    /\ lastOp.op = "read"
    /\ lastOp.n > 1
    /\ lastOp.r.t = "c"
    /\ lastOp.r.v = Len(cows)
    /\ cows[lastOp.n].look[lastOp.k] = lastOp.r.v
    /\ cows[lastOp.r.v].root = 1
    /\ cows[lastOp.n].root = 1
    /\ lastOp.r.v \in {cows[1].children[i] : i \in 1..Len(cows[1].children)}

\* the nodes of the transaction of node n: n and the child overlays created
\* under it
Transaction(n) ==
    {n} \cup {cows[n].children[i] : i \in 1..Len(cows[n].children)}

\* C25: after apply() on the overlay root, every COW node that took part in
\* the transaction (the root and each child overlay node created under it)
\* has an empty overrides mapping and an empty materialized-children cache.
C25_ApplyClearsEveryNode ==
    [][lastOp'.op = "apply" =>
        \A n \in Transaction(1) :
            cows'[n].new = EmptyDict /\ cows'[n].look = NoLook]_vars

\* what reading through the overlay node n shows, nested overlays read in
\* turn, as the entries Flat gives for a dict tree
RECURSIVE NestedView(_, _, _, _)
ViewOf(g, path) ==
    IF g.r = KeyErr THEN {}
    ELSE IF g.r.t = "c" THEN NestedView(g.c, g.h, g.r.v, path)
    ELSE {<<path, g.r.t, g.r.v>>}
NestedView(c, h, n, path) ==
    {<<path, "m", 0>>} \cup
    UNION {ViewOf(CowGetItem(c, h, n, k), Append(path, k)) : k \in Keys}

\* C36: after any reads, writes and deletes on the overlay root and its
\* child overlays, the original dict tree after apply() equals the nested
\* view the root presented immediately before apply().
C36_ApplyEqualsView ==
    [][lastOp'.op = "apply" =>
         DeepVal(heap', D(cows[1].orig)) = NestedView(cows, heap, 1, <<>>)]_vars

----------------------------------------------------------------------------
(* Two overlays open on the same original dict: the COWDict objects 1 and  *)
(* 2 are both roots over heap[1]; each is read, written and applied.       *)

Applied(r, new) == [e |-> "apply", v |-> r, new |-> new]

TwoInit ==
    /\ heap \in InitHeaps
    /\ cows = CowInit(CowInit(<<>>, 1, 0), 1, 0)
    /\ lastOp = Op("init", 0, "a", Absent)
    /\ nops = 0
    /\ fs = NoFiles /\ inv = NoInv /\ mrg = NoMerge /\ gen = NoGen /\ call = NoCall /\ log = <<>>
    /\ inst = NoInst
    /\ sch = NoSchema

\* root.apply() on either root
ApplyRoot(root) ==
    /\ nops < MaxOps
    /\ heap' = CowApply(cows, heap, root).h
    /\ cows' = CowApply(cows, heap, root).c
    /\ lastOp' = Op("apply", root, "a", Absent)
    /\ log' = Append(log, Applied(root, cows[root].new))
    /\ nops' = nops + 1
    /\ UNCHANGED <<gen, call, mrg, inv, fs, inst, sch>>

TwoNext ==
    \/ \E n \in 1..Len(cows), k \in Keys : Read(n, k)
    \/ \E n \in 1..Len(cows), k \in Keys, s \in Scalars : WriteScalar(n, k, s)
    \/ \E n \in 1..Len(cows), k \in Keys, lit \in DictLits : WriteDict(n, k, lit)
    \/ \E n \in 1..Len(cows), k \in Keys : Delete(n, k)
    \/ \E root \in 1..2 : ApplyRoot(root)

SpecTwo == TwoInit /\ [][TwoNext]_vars

\* the nodes root.apply() writes back, in the order it does: the root, then
\* its list of children
ApplyOrder(c, root) == <<root>> \o c[root].children

\* the positions of ApplyOrder whose node wraps dict i and holds an
\* override or a tombstone for key k
Pending(c, root, i, k) ==
    {j \in 1..Len(ApplyOrder(c, root)) :
        /\ c[ApplyOrder(c, root)[j]].orig = i
        /\ c[ApplyOrder(c, root)[j]].new[k] # Absent}

\* what the last of those nodes leaves under the key
Committed(c, root, i, k) ==
    LET j == CHOOSE x \in Pending(c, root, i, k) :
                 \A y \in Pending(c, root, i, k) : y <= x
        v == c[ApplyOrder(c, root)[j]].new[k]
    IN  IF v = Unset THEN Absent ELSE v

\* C35: apply() changes in each dict only the keys for which a node of the
\* applied overlay that wraps the dict holds an override or a tombstone, and
\* leaves under such a key what the override says; every other key of every
\* dict keeps the value it has when apply() is called, whatever another
\* overlay on the same dict has applied before.
C35_ApplyTouchesOnlyPending ==
    [][lastOp'.op = "apply" =>
         \A i \in 1..Len(heap), k \in Keys :
             heap'[i][k] = (IF Pending(cows, lastOp'.n, i, k) = {}
                            THEN heap[i][k]
                            ELSE Committed(cows, lastOp'.n, i, k))]_vars

\* overlay 1 set a and b and was applied, then overlay 2, which had set only
\* b, was applied: a holds what overlay 1 wrote and b what overlay 2 wrote
C35_Witness ==
    /\ log = <<Applied(1, [a |-> S(1), b |-> S(1)]),
               Applied(2, [a |-> Absent, b |-> S(2)])>>
    /\ heap[1] = [a |-> S(1), b |-> S(2)]
    /\ lastOp.op = "apply"

----------------------------------------------------------------------------
(* Deep merge of two dict trees: _merge_dict(lhs, rhs) called on a         *)
(* destination tree rooted at heap[1] and a source tree rooted at heap[4]. *)

ScalVals == {Absent} \cup {S(n) : n \in Scalars}
LeafDicts == { EmptyDict, [a |-> S(1), b |-> Absent] }

\* dicts whose key "a" may hold the dict with identity child
DictsOver(child) ==
    {[a |-> x, b |-> y] : x \in ScalVals \cup {D(child)}, y \in ScalVals}

\* The trees of depth up to three stored at identities base+1 .. base+3
\* (a dict no other dict refers to is left empty)
TreesAt(base) ==
    { tr \in DictsOver(base + 2) \X DictsOver(base + 3) \X LeafDicts :
        /\ tr[1]["a"] # D(base + 2) => tr[2] = EmptyDict
        /\ tr[2]["a"] # D(base + 3) => tr[3] = EmptyDict }

MergeInit ==
    /\ \E d \in TreesAt(0), sr \in TreesAt(3) : heap = d \o sr
    /\ cows = <<>>
    /\ lastOp = Op("init", 0, "a", Absent)
    /\ nops = 0
    /\ fs = NoFiles /\ inv = NoInv /\ mrg = NoMerge /\ gen = NoGen /\ call = NoCall /\ log = <<>>
    /\ inst = NoInst
    /\ sch = NoSchema

DoMerge(order) ==
    LET m == MergeDict(cows, heap, D(1), 4, order) IN
    /\ lastOp.op = "init"
    /\ heap' = m.h
    /\ cows' = m.c
    /\ lastOp' = [op |-> "merge", order |-> order, raised |-> m.raised,
                  dst0 |-> DeepVal(heap, D(1)), src0 |-> DeepVal(heap, D(4))]
    /\ nops' = nops + 1
    /\ UNCHANGED <<gen, call, log, mrg, inv, fs, inst, sch>>

MergeNext == \E order \in KeyOrders : DoMerge(order)

SpecMerge == MergeInit /\ [][MergeNext]_vars

\* C9: when no key holds a mapping on exactly one side, the merge raises
\* nothing and leaves the destination equal to the recursive reference
\* merge of the destination and the source it started from.
C9_MergeEqualsReference ==
    (lastOp.op = "merge" /\ ~RConflict(lastOp.dst0, lastOp.src0)) =>
        /\ lastOp.raised = <<>>
        /\ DeepVal(heap, D(1)) = RMerge(lastOp.dst0, lastOp.src0)

\* a merge that recursed into the mappings under "a": the destination's
\* nested key "b" was absent from the source and the source's nested key "a"
\* absent from the destination
C9_Witness ==
    /\ lastOp.op = "merge"
    /\ lastOp.raised = <<>>
    /\ IsM(Sub(lastOp.dst0, "a")) /\ IsM(Sub(lastOp.src0, "a"))
    /\ Sub(Sub(lastOp.dst0, "a"), "b") # {}
    /\ Sub(Sub(lastOp.src0, "a"), "b") = {}
    /\ Sub(Sub(lastOp.dst0, "a"), "a") = {}
    /\ Sub(Sub(lastOp.src0, "a"), "a") # {}
    /\ Sub(lastOp.dst0, "b") # {} /\ Sub(lastOp.src0, "b") # {}
    /\ Sub(lastOp.dst0, "b") # Sub(lastOp.src0, "b")

\* C10: when some key holds a mapping on exactly one side, the merge raises
\* the type-mismatch error naming the full path from the root to such a key,
\* and the destination still holds at that path what it held before.
C10_MismatchRaised ==
    (lastOp.op = "merge" /\ RConflict(lastOp.dst0, lastOp.src0)) =>
        \E p \in RConflictPaths(lastOp.dst0, lastOp.src0) :
            /\ lastOp.raised = MismatchMsg(p)
            /\ SubAt(DeepVal(heap, D(1)), p) = SubAt(lastOp.dst0, p)

\* a mismatch below the root (the destination holds a mapping at /a/a, the
\* source a scalar), raised after another key had already been merged
C10_Witness ==
    /\ lastOp.op = "merge"
    /\ lastOp.raised = MismatchMsg(<<"a", "a">>)
    /\ IsM(SubAt(lastOp.dst0, <<"a", "a">>))
    /\ DeepVal(heap, D(1)) # lastOp.dst0

\* Destinations in which one dict is the value of two keys (what a YAML
\* alias loads as), at identities 1..3, and sources of depth up to three at
\* identities 4..8
SharedDests ==
    { <<d1, d2, EmptyDict>> :
        d1 \in [Keys -> ScalVals \cup {D(2)}], d2 \in [Keys -> ScalVals] }
SourcesAt4 ==
    { <<[a |-> x, b |-> y], [a |-> u, b |-> Absent], [a |-> v, b |-> Absent],
        l, [a |-> Absent, b |-> S(2)]>> :
        x \in {S(1), D(5)}, y \in {Absent, D(6)}, u \in {S(1), D(7)},
        v \in {S(1), D(8)}, l \in LeafDicts }

SharedInit ==
    /\ \E d \in SharedDests, sr \in SourcesAt4 : heap = d \o sr
    /\ cows = <<>>
    /\ lastOp = Op("init", 0, "a", Absent)
    /\ nops = 0
    /\ fs = NoFiles /\ inv = NoInv /\ mrg = NoMerge /\ gen = NoGen /\ call = NoCall /\ log = <<>>
    /\ inst = NoInst
    /\ sch = NoSchema

SpecShared == SharedInit /\ [][MergeNext]_vars

\* C27: for every pair of destination and source mappings, a deep-merge
\* call modifies only the destination: the source mapping and every mapping
\* nested in it have the same contents after the call as before it.
C27_SourceUnchanged ==
    [][lastOp'.op = "merge" =>
        \A i \in Reach(heap, 4) : heap'[i] = heap[i]]_vars

----------------------------------------------------------------------------
(* Binding.__call__ and Load.inst_load, on an instance of                  *)
(*     class Cfg(Config):                                                  *)
(*         x = Option(key='a')                                             *)
(*         y = Option(default=1, key='b')                                  *)
(* whose _raw dict is heap[1].                                             *)

MaxLoads == 1

Attrs == {"x", "y"}
NoMemo == [f \in Attrs |-> Absent]
AttrErr == [t |-> "e", v |-> 1]

\* Cfg._attrs: the Binding of each attribute
Bindings ==
    [x |-> [attr |-> "x", key |-> "a", default |-> Unset],
     y |-> [attr |-> "y", key |-> "b", default |-> S(1)]]

\* None, as an option's default
None == [t |-> "n", v |-> 0]

\* The classes an instance may be of: Cfg as above, or Cfg with
\*     y = Option(default=None, key='b')
Classes == {Bindings, [Bindings EXCEPT !.y.default = None]}

\* the message of the AttributeError of Binding.__call__
MissingMsg(key, attr) ==
    <<"missing required configuration value '", key, "' for attribute '",
      attr, "'">>

\* Option.__call__
OptionCall(value) == value

\* Binding.__call__ that takes a default of None for no default
BindingCall_NoneIsUnset(x, h, b) ==
    IF x[b.attr] = Absent
    THEN LET inRaw == h[1][b.key] # Absent
             value == IF inRaw THEN OptionCall(h[1][b.key]) ELSE b.default
         IN  IF value \in {Unset, None}
             THEN [x |-> x, h |-> h, r |-> AttrErr, called |-> inRaw,
                   msg |-> MissingMsg(b.key, b.attr)]
             ELSE [x |-> [x EXCEPT ![b.attr] = value], h |-> h, r |-> value,
                   called |-> inRaw, msg |-> <<>>]
    ELSE [x |-> x, h |-> h, r |-> x[b.attr], called |-> FALSE, msg |-> <<>>]

\* Binding.__call__ whose message names the attribute only
BindingCall_AttrOnlyMsg(x, h, b) ==
    IF x[b.attr] = Absent
    THEN LET inRaw == h[1][b.key] # Absent
             value == IF inRaw THEN OptionCall(h[1][b.key]) ELSE b.default
         IN  IF value = Unset
             THEN [x |-> x, h |-> h, r |-> AttrErr, called |-> inRaw,
                   msg |-> MissingMsg(b.attr, b.attr)]
             ELSE [x |-> [x EXCEPT ![b.attr] = value], h |-> h, r |-> value,
                   called |-> inRaw, msg |-> <<>>]
    ELSE [x |-> x, h |-> h, r |-> x[b.attr], called |-> FALSE, msg |-> <<>>]

\* Binding.__call__ that never looks at the cache
BindingCall_NoMemo(x, h, b) ==
    LET inRaw == h[1][b.key] # Absent
        value == IF inRaw THEN OptionCall(h[1][b.key]) ELSE b.default
    IN  IF value = Unset
        THEN [x |-> x, h |-> h, r |-> AttrErr, called |-> inRaw,
              msg |-> MissingMsg(b.key, b.attr)]
        ELSE [x |-> [x EXCEPT ![b.attr] = value], h |-> h, r |-> value,
              called |-> inRaw, msg |-> <<>>]

\* Binding.__call__(obj) with obj._xlated = x and obj._raw = heap[1]: the
\* cache and the dicts afterwards, the value returned (AttrErr for the
\* AttributeError), and whether the option was called to translate
BindingCall(x, h, b) ==
    IF x[b.attr] = Absent
    THEN LET inRaw == h[1][b.key] # Absent
             value == IF inRaw THEN OptionCall(h[1][b.key]) ELSE b.default
         IN  IF value = Unset
             THEN [x |-> x, h |-> h, r |-> AttrErr, called |-> inRaw,
                   msg |-> MissingMsg(b.key, b.attr)]
             ELSE [x |-> [x EXCEPT ![b.attr] = value], h |-> h, r |-> value,
                   called |-> inRaw, msg |-> <<>>]
    ELSE [x |-> x, h |-> h, r |-> x[b.attr], called |-> FALSE, msg |-> <<>>]

\* yaml.safe_load: the dicts of the document become new objects
SafeLoad(h, doc) ==
    [h |-> h \o [i \in 1..Len(doc) |->
                    [k \in Keys |-> IF IsDict(doc[i][k])
                                    THEN D(doc[i][k].v + Len(h))
                                    ELSE doc[i][k]]],
     id |-> Len(h) + 1]

\* self._merge_dict(final, raw): r is what the merge left
Merged(final, r) ==
    [c |-> r.c, h |-> r.h, final |-> final, raised |-> r.raised]

\* the loop of Load._load over the files: m holds the objects, the mapping
\* merged into (final) and the exception raised so far
RECURSIVE LoadFiles(_, _, _)
LoadFiles(m, files, order) ==
    IF files = <<>> \/ m.raised # <<>> THEN m
    ELSE LoadFiles(
             Merged(m.final,
                    MergeDict(m.c, SafeLoad(m.h, Head(files)).h, m.final,
                              SafeLoad(m.h, Head(files)).id, order)),
             Tail(files), order)

\* Load._load(files, startwith); startwith is a COWDict C(id) or Absent
\* (None).  `startwith or {}` takes the new dict when startwith is falsy,
\* and a COWDict is falsy when its __len__ is 0
Load(c, h, startwith, files, order) ==
    LET truthy == startwith # Absent /\ CowLen(c, h, startwith.v) # 0 IN
    LoadFiles([c |-> c,
               h |-> IF truthy THEN h ELSE Append(h, EmptyDict),
               final |-> IF truthy THEN startwith ELSE D(Len(h) + 1),
               raised |-> <<>>], files, order)

\* Load.inst_load that goes on to apply() after the merge raised
InstLoadCommit_ApplyAnyway(x, m, validate, valid) ==
    IF validate /\ ~valid /\ m.raised = <<>>
    THEN [h |-> m.h, x |-> x, status |-> "invalid"]
    ELSE IF m.final.t # "c" THEN [h |-> m.h, x |-> x, status |-> "noapply"]
    ELSE [h |-> CowApply(m.c, m.h, m.final.v).h, x |-> NoMemo,
          status |-> IF m.raised = <<>> THEN "ok" ELSE "mismatch"]

\* Load.inst_load that does not clear inst._xlated
InstLoadCommit_KeepMemo(x, m, validate, valid) ==
    IF m.raised # <<>> THEN [h |-> m.h, x |-> x, status |-> "mismatch"]
    ELSE IF validate /\ ~valid THEN [h |-> m.h, x |-> x, status |-> "invalid"]
    ELSE IF m.final.t # "c" THEN [h |-> m.h, x |-> x, status |-> "noapply"]
    ELSE [h |-> CowApply(m.c, m.h, m.final.v).h, x |-> x, status |-> "ok"]

\* Load.inst_load once _load has ended with m: validate, apply, clear.  The
\* dicts and inst._xlated afterwards and how the call ended: "mismatch"
\* (ConfigException from the merge), "invalid" (the validator's
\* ValidationError; valid is the verdict of jsonschema), "noapply"
\* (AttributeError: the dict _load returned has no apply()), or "ok"
InstLoadCommit(x, m, validate, valid) ==
    IF m.raised # <<>> THEN [h |-> m.h, x |-> x, status |-> "mismatch"]
    ELSE IF validate /\ ~valid THEN [h |-> m.h, x |-> x, status |-> "invalid"]
    ELSE IF m.final.t # "c" THEN [h |-> m.h, x |-> x, status |-> "noapply"]
    ELSE [h |-> CowApply(m.c, m.h, m.final.v).h, x |-> NoMemo,
          status |-> "ok"]

\* Load.inst_load(inst, files, validate) with inst._xlated = x and
\* inst._raw = h[1]
InstLoadResult(x, h, files, validate, valid, order) ==
    InstLoadCommit(x, Load(CowInit(<<>>, 1, 0), h, C(1), files, order),
                   validate, valid)

\* The dicts still referenced once a call has returned (from inst._raw or
\* from a cached value): the others are reclaimed
Collect(h, x) ==
    LET live == UNION {Reach(h, r) :
                        r \in {1} \cup {x[f].v : f \in {g \in Attrs : IsDict(x[g])}}}
        top == CHOOSE i \in live : \A j \in live : j <= i
    IN  [i \in 1..top |-> IF i \in live THEN h[i] ELSE EmptyDict]

\* The raw dicts an instance starts with
InitRaws ==
    { << EmptyDict >>,
      << [a |-> S(1), b |-> Absent] >>,
      << [a |-> D(2), b |-> S(2)], [a |-> S(1), b |-> Absent] >>,
      << [a |-> S(1), b |-> D(2)], [a |-> S(1), b |-> S(1)] >> }

\* The YAML documents a file may hold (the root dict first)
Docs ==
    { << [a |-> S(2), b |-> Absent] >>,
      << [a |-> Absent, b |-> S(2)] >>,
      << [a |-> D(2), b |-> Absent], [a |-> Absent, b |-> S(2)] >>,
      << [a |-> S(1), b |-> D(2)], [a |-> S(2), b |-> Absent] >> }

\* What file discovery may yield: up to two files
FileLists == {<<>>} \cup {<<d>> : d \in Docs} \cup {<<d, e>> : d \in Docs, e \in Docs}

LoadInit ==
    /\ heap \in InitRaws
    /\ cows = <<>>
    /\ lastOp = [op |-> "init"]
    /\ nops = 0
    /\ fs = NoFiles /\ inv = NoInv /\ mrg = NoMerge /\ gen = NoGen /\ call = NoCall /\ log = <<>>
    /\ inst \in {[xlated |-> NoMemo, cls |-> c] : c \in Classes}
    /\ sch = NoSchema

\* inst.<attr>: Binding.__get__ calls the Binding on the instance
ReadAttr(a) ==
    LET r == BindingCall(inst.xlated, heap, inst.cls[a]) IN
    /\ inst' = [inst EXCEPT !.xlated = r.x]
    /\ heap' = r.h
    /\ lastOp' = [op |-> "attr", attr |-> a, r |-> r.r, called |-> r.called,
                  msg |-> r.msg]
    /\ UNCHANGED <<gen, call, log, mrg, inv, fs, cows, nops, sch>>

\* inst.load(files, validate)
InstLoaded(r, files, validate) ==
    /\ heap' = Collect(r.h, r.x)
    /\ inst' = [inst EXCEPT !.xlated = r.x]
    /\ lastOp' = [op |-> "load", files |-> files, validate |-> validate,
                  status |-> r.status]
    /\ nops' = nops + 1
    /\ UNCHANGED <<gen, call, log, mrg, inv, fs, cows, sch>>

InstLoad(files, validate, valid, order) ==
    /\ nops < MaxLoads
    /\ InstLoaded(InstLoadResult(inst.xlated, heap, files, validate, valid,
                                 order), files, validate)

LoadNext ==
    \/ \E a \in Attrs : ReadAttr(a)
    \/ \E files \in FileLists, validate \in BOOLEAN, valid \in BOOLEAN,
          order \in KeyOrders :
            (validate \/ valid) /\ InstLoad(files, validate, valid, order)

SpecLoad == LoadInit /\ [][LoadNext]_vars

\* the reference deep merge of a mapping tree with a list of documents
RECURSIVE RMergeAll(_, _)
RMergeAll(F, files) ==
    IF files = <<>> THEN F
    ELSE RMergeAll(RMerge(F, DeepVal(Head(files), D(1))), Tail(files))

RECURSIVE RConflictAll(_, _)
RConflictAll(F, files) ==
    /\ files # <<>>
    /\ \/ RConflict(F, DeepVal(Head(files), D(1)))
       \/ RConflictAll(RMerge(F, DeepVal(Head(files), D(1))), Tail(files))

\* C2: after a successful instance-level load the raw mapping is the deep
\* merge of the raw mapping before the call with the loaded documents, in
\* order (mappings under the same key merged recursively).
C2_InstLoadIsDeepMerge ==
    [][(lastOp'.op = "load" /\ lastOp'.status = "ok") =>
        /\ ~RConflictAll(DeepVal(heap, D(1)), lastOp'.files)
        /\ DeepVal(heap', D(1)) =
               RMergeAll(DeepVal(heap, D(1)), lastOp'.files)]_vars

\* C3: a load that ends with the merge's ConfigException or with the
\* validator's error leaves every dict of the raw mapping tree and the
\* _xlated cache exactly as they were.
C3_FailedLoadCommitsNothing ==
    [][(lastOp'.op = "load" /\ lastOp'.status \in {"mismatch", "invalid"}) =>
        /\ \A i \in Reach(heap, 1) : i <= Len(heap') /\ heap'[i] = heap[i]
        /\ DeepVal(heap', D(1)) = DeepVal(heap, D(1))
        /\ inst'.xlated = inst.xlated]_vars

\* a load of two documents failed in the merge of the second one, with a
\* value cached and a nested mapping in the raw dict
C3_Witness ==
    /\ lastOp.op = "load"
    /\ lastOp.status = "mismatch"
    /\ Len(lastOp.files) = 2
    /\ inst.xlated # NoMemo
    /\ \E k \in Keys : IsDict(heap[1][k])

\* C5: a read of a field whose value is cached returns the cached value
\* without calling the option and changes neither the cache nor any dict; a
\* read of a field not yet cached that returns a value has computed it from
\* the raw mapping (or the default) and stored it in the cache.
C5_ReadMemoizes ==
    [][lastOp'.op = "attr" =>
        LET a == lastOp'.attr
            b == inst.cls[a]
        IN  IF inst.xlated[a] # Absent
            THEN /\ lastOp'.r = inst.xlated[a]
                 /\ ~lastOp'.called
                 /\ inst' = inst
                 /\ heap' = heap
            ELSE /\ heap' = heap
                 /\ lastOp'.r # AttrErr =>
                      /\ inst'.xlated = [inst.xlated EXCEPT ![a] = lastOp'.r]
                      /\ lastOp'.r = IF heap[1][b.key] # Absent
                                     THEN heap[1][b.key] ELSE b.default
                      /\ lastOp'.called = (heap[1][b.key] # Absent)]_vars

\* a second read of x returned the value the first read translated from the
\* raw mapping
C5_Witness ==
    /\ lastOp.op = "attr"
    /\ lastOp.attr = "x"
    /\ ~lastOp.called
    /\ lastOp.r = heap[1]["a"]
    /\ inst.xlated["x"] = lastOp.r

\* the value a read of attribute a yields from the current raw mapping
FreshValue(a) ==
    IF heap[1][inst.cls[a].key] # Absent
    THEN OptionCall(heap[1][inst.cls[a].key])
    ELSE inst.cls[a].default

\* C6: a successful load leaves the _xlated cache empty, and no cached value
\* ever differs from what the current raw mapping translates to, so a value
\* cached before a load is not returned after it.
C6_LoadClearsMemo ==
    /\ (lastOp.op = "load" /\ lastOp.status = "ok") => inst.xlated = NoMemo
    /\ \A a \in Attrs : inst.xlated[a] # Absent => inst.xlated[a] = FreshValue(a)
    /\ lastOp.op = "attr" =>
          lastOp.r = (IF FreshValue(lastOp.attr) = Unset THEN AttrErr
                      ELSE FreshValue(lastOp.attr))

\* after a load changed the value under key "a", a read of x has cached the
\* new value
C6_Witness ==
    /\ nops = 1
    /\ lastOp.op = "attr"
    /\ lastOp.attr = "x"
    /\ lastOp.called
    /\ lastOp.r = S(2)
    /\ inst.xlated["x"] = S(2)

\* C13: a read of a field that is not cached, whose option has a default
\* (None included) and whose key the raw mapping lacks, returns the default
\* and stores it in the cache without calling the option.
C13_DefaultReturned ==
    [][lastOp'.op = "attr" =>
        LET a == lastOp'.attr
            b == inst.cls[a]
        IN  (/\ inst.xlated[a] = Absent
             /\ b.default # Unset
             /\ heap[1][b.key] = Absent) =>
                /\ lastOp'.r = b.default
                /\ ~lastOp'.called
                /\ inst'.xlated = [inst.xlated EXCEPT ![a] = b.default]
                /\ heap' = heap]_vars

\* a read returned and cached the default None of y while the raw mapping
\* has no key b
C13_Witness ==
    /\ lastOp.op = "attr"
    /\ lastOp.attr = "y"
    /\ lastOp.r = None
    /\ ~lastOp.called
    /\ inst.xlated["y"] = None
    /\ heap[1]["b"] = Absent

\* C14: a read of a field whose option has no default and whose key the raw
\* mapping lacks raises AttributeError with a message naming the key and the
\* attribute, and leaves the cache and the raw mapping as they were (so the
\* same read fails again).
C14_MissingRequiredRaises ==
    [][lastOp'.op = "attr" =>
        LET a == lastOp'.attr
            b == inst.cls[a]
        IN  (b.default = Unset /\ heap[1][b.key] = Absent) =>
                /\ lastOp'.r = AttrErr
                /\ lastOp'.msg = <<"missing required configuration value '",
                                   b.key, "' for attribute '", a, "'">>
                /\ b.key # a
                /\ ~lastOp'.called
                /\ inst.xlated[a] = Absent
                /\ inst' = inst
                /\ heap' = heap]_vars

\* the read of x failed for lack of key a after a load, with y cached
C14_Witness ==
    /\ lastOp.op = "attr"
    /\ lastOp.attr = "x"
    /\ lastOp.r = AttrErr
    /\ heap[1]["a"] = Absent
    /\ inst.xlated["x"] = Absent
    /\ inst.xlated["y"] # Absent

\* C28: when a starting mapping is supplied to the shared load routine,
\* every discovered file is merged into that same mapping object and that
\* same object is returned, whatever the starting mapping currently
\* contains; only when none is supplied does the routine start from a new
\* empty mapping.
C28_LoadIntoStartwith ==
    [][lastOp'.op = "load" =>
        \A order \in KeyOrders :
            /\ Load(CowInit(<<>>, 1, 0), heap, C(1), lastOp'.files,
                    order).final = C(1)
            /\ Load(<<>>, heap, Absent, lastOp'.files, order).final
                   = D(Len(heap) + 1)]_vars

----------------------------------------------------------------------------
(* Schema objects: Option and ListOption instances and Config subclasses.  *)
(* sch[n] is the object with identity n:                                   *)
(*   kind    "option", "list", "config" ("none": no such object yet)       *)
(*   attrs   _attrs, by attribute name (NoB: no entry)                     *)
(*   keys    _keys, by configuration key (NoB: no entry)                   *)
(*   parents _parents                                                      *)
(*   cache   _schema_cache: "absent" (the object has no such attribute),   *)
(*           "none" (None) or "doc" with the cached schema                 *)
(*   dflt    __default__: "unset" (_unset), "value", or "missing" (a       *)
(*           Config subclass that declares no __default__)                 *)
(*   okey    __key__ ("" when the object has none)                         *)
(*   items   the item option of a list-mode ListOption (0: none)           *)

MaxNode == 3

Nodes == 1..MaxNode
AttrNames == {"x", "y"}

\* RESERVED: the names of dir(BaseConfig) that do not start with "__"
Reserved == {"lookup", "extend", "_extend", "validate", "load"}

\* the names a class body or extend() may use for a field or a key
DeclNames == AttrNames \cup {"load"}

NoB == [attr |-> "", key |-> "", option |-> 0]
NoBindings == [a \in DeclNames |-> NoB]
NoCacheAttr == [st |-> "absent", doc |-> {}]
NoneCache == [st |-> "none", doc |-> {}]
Cached(doc) == [st |-> "doc", doc |-> doc]

NoNode ==
    [kind |-> "none", attrs |-> NoBindings, keys |-> NoBindings,
     parents |-> {}, cache |-> NoCacheAttr, dflt |-> "missing", okey |-> "",
     items |-> 0, seq |-> <<>>]

\* Option.__init__(default, key)
NewOption(dflt, okey) ==
    [NoNode EXCEPT !.kind = "option", !.dflt = dflt, !.okey = okey]

\* Binding.__init__
Binding(attr, key, option) == [attr |-> attr, key |-> key, option |-> option]

\* a set of identities as the sequence a loop visits it in
RECURSIVE SeqOf(_)
SeqOf(set) ==
    IF set = {} THEN <<>>
    ELSE LET m == CHOOSE i \in set : \A j \in set : i <= j
         IN  <<m>> \o SeqOf(set \ {m})

\* _schema_invalidate that stops after the child itself
SchemaInvalidateLoop_ChildOnly(sc, queue, seen) ==
    IF queue = <<>> THEN sc
    ELSE IF sc[Head(queue)].cache.st # "doc" THEN sc
    ELSE [sc EXCEPT ![Head(queue)].cache = NoneCache]

\* _schema_invalidate that queues the parents of every node it visits,
\* cached or not
RECURSIVE SchemaInvalidateLoop_Through(_, _, _)
SchemaInvalidateLoop_Through(sc, queue, seen) ==
    IF queue = <<>> THEN sc
    ELSE LET work == Head(queue)
             fresh == sc[work].parents \ seen
         IN  SchemaInvalidateLoop_Through(
                 IF sc[work].cache.st = "doc"
                 THEN [sc EXCEPT ![work].cache = NoneCache] ELSE sc,
                 Tail(queue) \o SeqOf(fresh), seen \cup fresh)

\* the while loop of _schema_invalidate
RECURSIVE SchemaInvalidateLoop(_, _, _)
SchemaInvalidateLoop(sc, queue, seen) ==
    IF queue = <<>> THEN sc
    ELSE LET work == Head(queue) IN
         IF sc[work].cache.st # "doc"
         THEN SchemaInvalidateLoop(sc, Tail(queue), seen)
         ELSE LET fresh == sc[work].parents \ seen
              IN  SchemaInvalidateLoop(
                      [sc EXCEPT ![work].cache = NoneCache],
                      Tail(queue) \o SeqOf(fresh), seen \cup fresh)

\* _schema_invalidate(child)
SchemaInvalidate(sc, child) == SchemaInvalidateLoop(sc, <<child>>, {child})

\* The objects an object embeds: the options of its Bindings and its item
Embedded(sc, n) ==
    {sc[n].attrs[a].option : a \in {x \in DeclNames : sc[n].attrs[x] # NoB}}
    \cup {sc[n].keys[a].option : a \in {x \in DeclNames : sc[n].keys[x] # NoB}}
    \cup (IF sc[n].items # 0 THEN {sc[n].items} ELSE {})

\* The objects that embed n, directly or transitively
RECURSIVE Embedders(_, _, _)
Embedders(sc, n, found) ==
    LET direct == {p \in Nodes : n \in Embedded(sc, p)} \ found IN
    IF direct = {} THEN found
    ELSE UNION {Embedders(sc, p, found \cup direct) : p \in direct}

\* sorted(names): the names in string order
NameOrder == <<"load", "x", "y">>
Sorted(names) == SelectSeq(NameOrder, LAMBDA k : k \in names)

\* schema documents, as sets of <<path, type, names>> entries: the type of
\* the schema at the path (through 'properties' and 'items') and, for an
\* object, its 'required' list
OptionDoc(o) ==
    {<<(<<>>), "option", IF o.dflt = "value" THEN <<"default">> ELSE <<>>>>}

\* Schema.__get__ (Config subclasses), ListOption.__schema__ and
\* Option.__schema__: the schema of object n, the objects with the caches
\* filled on the way, and ok = FALSE when the computation raised
\* AttributeError (an embedded Config subclass without __default__)
RECURSIVE SchemaGet(_, _, _)
RECURSIVE SchemaProps(_, _, _, _, _)

\* Schema.__get__ that files each field under its attribute name
SchemaProps_ByAttr(sc, n, ks, acc, order) ==
    IF ks = <<>>
    THEN [sc |-> sc, ok |-> TRUE,
          doc |-> {<<(<<>>), "object", Sorted(acc.required)>>} \cup acc.props]
    ELSE LET key == Head(ks)
             binding == sc[n].keys[key]
         IN  IF binding = NoB
             THEN SchemaProps(sc, n, Tail(ks), acc, order)
             ELSE LET r == SchemaGet(sc, binding.option, order) IN
                  IF ~r.ok \/ r.sc[binding.option].dflt = "missing"
                  THEN [sc |-> r.sc, ok |-> FALSE, doc |-> {}]
                  ELSE SchemaProps(r.sc, n, Tail(ks),
                           [props |-> acc.props \cup Under(binding.attr, r.doc),
                            required |->
                                IF r.sc[binding.option].dflt = "unset"
                                THEN acc.required \cup {binding.attr}
                                ELSE acc.required],
                           order)

\* the loop over cls._keys.items() of Schema.__get__: ks are the keys still
\* to visit, in the order the dictionary yields them, and acc holds the
\* properties and the required names collected so far
SchemaProps(sc, n, ks, acc, order) ==
    IF ks = <<>>
    THEN [sc |-> sc, ok |-> TRUE,
          doc |-> {<<(<<>>), "object", Sorted(acc.required)>>} \cup acc.props]
    ELSE LET key == Head(ks)
             binding == sc[n].keys[key]
         IN  IF binding = NoB
             THEN SchemaProps(sc, n, Tail(ks), acc, order)
             ELSE LET r == SchemaGet(sc, binding.option, order) IN
                  IF ~r.ok \/ r.sc[binding.option].dflt = "missing"
                  THEN [sc |-> r.sc, ok |-> FALSE, doc |-> {}]
                  ELSE SchemaProps(r.sc, n, Tail(ks),
                           [props |-> acc.props \cup Under(key, r.doc),
                            required |->
                                IF r.sc[binding.option].dflt = "unset"
                                THEN acc.required \cup {key}
                                ELSE acc.required],
                           order)

SchemaGet(sc, n, order) ==
    IF sc[n].kind = "option"
    THEN [sc |-> sc, ok |-> TRUE, doc |-> OptionDoc(sc[n])]
    ELSE IF sc[n].cache.st = "doc"
    THEN [sc |-> sc, ok |-> TRUE, doc |-> sc[n].cache.doc]
    ELSE IF sc[n].kind = "list"
    THEN IF sc[n].items = 0
         THEN LET d == {<<(<<>>), "array", <<>>>>}
              IN  [sc |-> [sc EXCEPT ![n].cache = Cached(d)], ok |-> TRUE,
                   doc |-> d]
         ELSE LET r == SchemaGet(sc, sc[n].items, order)
                  d == {<<(<<>>), "array", <<>>>>} \cup Under("items", r.doc)
              IN  IF ~r.ok THEN r
                  ELSE [sc |-> [r.sc EXCEPT ![n].cache = Cached(d)],
                        ok |-> TRUE, doc |-> d]
    ELSE LET r == SchemaProps(sc, n, order,
                              [props |-> {}, required |-> {}], order)
         IN  IF ~r.ok THEN r
             ELSE [sc |-> [r.sc EXCEPT ![n].cache = Cached(r.doc)],
                   ok |-> TRUE, doc |-> r.doc]

\* The names lookup() and extend() are given: a string, as the sequence of
\* its "/" characters and of its other parts (the parts stand for names, one
\* between two "/"), or a list of names ("" for an empty name)
Str(chars) == [form |-> "str", v |-> chars]
List(names) == [form |-> "list", v |-> names]

\* name.split('/')
RECURSIVE Split(_, _, _)
Split(chars, cur, out) ==
    IF chars = <<>> THEN Append(out, cur)
    ELSE IF Head(chars) = "/" THEN Split(Tail(chars), "", Append(out, cur))
    ELSE Split(Tail(chars), Head(chars), out)

\* [p for p in names if p]
Clean(names) == SelectSeq(names, LAMBDA p : p # "")

\* What a walk down the tree has reached: nothing yet (the class the walk
\* starts at), a Binding, the item of a ListOption, or KeyError.  node is
\* the object whose _attrs the next step consults
AtClass(cls) == [res |-> "class", b |-> NoB, node |-> cls]
AtBinding(b) == [res |-> "binding", b |-> b, node |-> b.option]
AtItem(n) == [res |-> "item", b |-> NoB, node |-> n]
LookupKeyError == [res |-> "keyerror", b |-> NoB, node |-> 0]

\* getattr(item, '_attrs', {})[elem]: the _attrs of a Config subclass hold
\* its Bindings, those of a list-mode ListOption its item under '[]'
AttrsGet(sc, n, elem) ==
    IF sc[n].kind = "config" /\ elem \in DeclNames /\ sc[n].attrs[elem] # NoB
    THEN AtBinding(sc[n].attrs[elem])
    ELSE IF sc[n].kind = "list" /\ sc[n].items # 0 /\ elem = "[]"
    THEN AtItem(sc[n].items)
    ELSE LookupKeyError

\* the loop of BaseConfig.lookup down the tree
RECURSIVE Descend(_, _, _)
Descend(sc, item, path) ==
    IF path = <<>> \/ item.res = "keyerror" THEN item
    ELSE Descend(sc, AttrsGet(sc, item.node, Head(path)), Tail(path))

\* BaseConfig.lookup(name)
Lookup(sc, cls, name) ==
    IF name.v = <<>> THEN LookupKeyError
    ELSE IF name.form = "list"
    THEN IF Len(name.v) = 1
         THEN (IF name.v[1] \in DeclNames /\ sc[cls].attrs[name.v[1]] # NoB
               THEN AtBinding(sc[cls].attrs[name.v[1]]) ELSE LookupKeyError)
         ELSE Descend(sc, AtClass(cls), Clean(name.v))
    ELSE IF Head(name.v) # "/"
    THEN (IF Len(name.v) = 1 /\ name.v[1] \in DeclNames
             /\ sc[cls].attrs[name.v[1]] # NoB
          THEN AtBinding(sc[cls].attrs[name.v[1]]) ELSE LookupKeyError)
    ELSE Descend(sc, AtClass(cls), Clean(Split(name.v, "", <<>>)))

\* BaseConfig.lookup(path) for a list of one or more non-empty names: the
\* object whose _extend is called (0 for KeyError)
LookupPath(sc, cls, path) == Lookup(sc, cls, List(path)).node

\* BaseConfig._extend that files the Binding under its attribute only
ExtendNode_AttrsOnly(sc, cls, attr, key, option) ==
    IF sc[cls].kind # "config" THEN [sc |-> sc, ok |-> FALSE, err |-> "config"]
    ELSE IF sc[cls].attrs[attr] # NoB \/ sc[cls].keys[key] # NoB
    THEN [sc |-> sc, ok |-> FALSE, err |-> "config"]
    ELSE [sc |-> SchemaInvalidate(
                    [sc EXCEPT ![cls].attrs[attr] = Binding(attr, key, option)],
                    cls),
          ok |-> TRUE, err |-> ""]

\* BaseConfig._extend that does not look for the key among the keys
ExtendNode_NoKeyCheck(sc, cls, attr, key, option) ==
    IF sc[cls].kind # "config" THEN [sc |-> sc, ok |-> FALSE, err |-> "config"]
    ELSE IF sc[cls].attrs[attr] # NoB
    THEN [sc |-> sc, ok |-> FALSE, err |-> "config"]
    ELSE [sc |-> SchemaInvalidate(
                    [sc EXCEPT ![cls].attrs[attr] = Binding(attr, key, option),
                               ![cls].keys[key] = Binding(attr, key, option)],
                    cls),
          ok |-> TRUE, err |-> ""]

\* BaseConfig._extend (Option._extend for an option): the objects
\* afterwards; err is "" when the field was registered and "config" for
\* ConfigException
ExtendNode(sc, cls, attr, key, option) ==
    IF sc[cls].kind # "config" THEN [sc |-> sc, ok |-> FALSE, err |-> "config"]
    ELSE IF sc[cls].attrs[attr] # NoB
    THEN [sc |-> sc, ok |-> FALSE, err |-> "config"]
    ELSE IF sc[cls].keys[key] # NoB
    THEN [sc |-> sc, ok |-> FALSE, err |-> "config"]
    ELSE [sc |-> SchemaInvalidate(
                    [sc EXCEPT ![cls].attrs[attr] = Binding(attr, key, option),
                               ![cls].keys[key] = Binding(attr, key, option)],
                    cls),
          ok |-> TRUE, err |-> ""]

\* BaseConfig.extend that accepts the reserved names
ExtendCall_NoReserved(sc, cls, path, attr, option, key) ==
    LET k == IF key = "" THEN attr ELSE key
        target == IF path = <<>> THEN cls ELSE LookupPath(sc, cls, path)
    IN  IF target = 0 THEN [sc |-> sc, ok |-> FALSE, err |-> "key"]
        ELSE ExtendNode(sc, target, attr, k, option)

\* BaseConfig.extend(attr, option, key) once attr is interpreted: path are
\* the names leading to the target, attr the final name, key = "" for no
\* key; err is "key" for the KeyError of lookup
ExtendCall(sc, cls, path, attr, option, key) ==
    IF attr \in Reserved THEN [sc |-> sc, ok |-> FALSE, err |-> "config"]
    ELSE LET k == IF key = "" THEN attr ELSE key
             target == IF path = <<>> THEN cls ELSE LookupPath(sc, cls, path)
         IN  IF target = 0 THEN [sc |-> sc, ok |-> FALSE, err |-> "key"]
             ELSE ExtendNode(sc, target, attr, k, option)

\* the names of a path, last one popped
Front(path) == SubSeq(path, 1, Len(path) - 1)
Last(path) == path[Len(path)]

\* "Interpret attr" that takes the first name of the path for the attribute
ExtendParse_FirstName(name) ==
    LET path == IF name.form = "list" THEN Clean(name.v)
                ELSE Clean(Split(name.v, "", <<>>))
    IN  IF name.v = <<>> THEN [path |-> <<>>, attr |-> "", err |-> "config"]
        ELSE IF name.form = "str" /\ Head(name.v) # "/"
        THEN [path |-> <<>>, attr |-> name.v[1], err |-> ""]
        ELSE IF path = <<>> THEN [path |-> <<>>, attr |-> "", err |-> "index"]
        ELSE [path |-> Front(path), attr |-> Head(path), err |-> ""]

\* "Interpret attr" of BaseConfig.extend: the path and the final attribute
\* name; err is "config" for the ConfigException on an empty name and
\* "index" for the IndexError of path.pop() on an empty path
ExtendParse(name) ==
    LET path == IF name.form = "list" THEN Clean(name.v)
                ELSE Clean(Split(name.v, "", <<>>))
    IN  IF name.v = <<>> THEN [path |-> <<>>, attr |-> "", err |-> "config"]
        ELSE IF name.form = "str" /\ Head(name.v) # "/"
        THEN [path |-> <<>>, attr |-> name.v[1], err |-> ""]
        ELSE IF path = <<>> THEN [path |-> <<>>, attr |-> "", err |-> "index"]
        ELSE [path |-> Front(path), attr |-> Last(path), err |-> ""]

\* BaseConfig.extend(attr, option, key) with attr = name
ExtendParsed(sc, cls, p, option, key) ==
    IF p.err # "" THEN [sc |-> sc, ok |-> FALSE, err |-> p.err]
    ELSE ExtendCall(sc, cls, p.path, p.attr, option, key)

ExtendName(sc, cls, name, option, key) ==
    ExtendParsed(sc, cls, ExtendParse(name), option, key)

\* ConfigMeta.__new__ that lets a later field take the key of an earlier one
DeclareClass_NoKeyCheck(sc, id, namespace, dflt) ==
    LET used == {a \in DOMAIN namespace : namespace[a] # 0}
        keyOf(a) == IF sc[namespace[a]].okey # "" THEN sc[namespace[a]].okey
                    ELSE a
        bindingOf(a) == Binding(a, keyOf(a), namespace[a])
        cls == [NoNode EXCEPT
                  !.kind = "config", !.dflt = dflt, !.cache = NoneCache,
                  !.attrs = [a \in DeclNames |->
                               IF a \in used THEN bindingOf(a) ELSE NoB],
                  !.keys = [k \in DeclNames |->
                              IF \E a \in used : keyOf(a) = k
                              THEN bindingOf(CHOOSE a \in used : keyOf(a) = k)
                              ELSE NoB]]
    IN  IF used \cap Reserved # {} THEN [sc |-> sc, ok |-> FALSE]
        ELSE [sc |-> [n \in Nodes |->
                        IF n = id THEN cls
                        ELSE IF \E a \in used : namespace[a] = n
                        THEN [sc[n] EXCEPT !.parents = @ \cup {id}]
                        ELSE sc[n]],
              ok |-> TRUE]

\* ConfigMeta.__new__ for a class body that assigns the objects
\* namespace[a] # 0 to the attributes a, and __default__ when dflt is not
\* "missing": the objects afterwards, and ok = FALSE for ConfigException
DeclareClass(sc, id, namespace, dflt) ==
    LET used == {a \in DOMAIN namespace : namespace[a] # 0}
        keyOf(a) == IF sc[namespace[a]].okey # "" THEN sc[namespace[a]].okey
                    ELSE a
        bindingOf(a) == Binding(a, keyOf(a), namespace[a])
        cls == [NoNode EXCEPT
                  !.kind = "config", !.dflt = dflt, !.cache = NoneCache,
                  !.attrs = [a \in DeclNames |->
                               IF a \in used THEN bindingOf(a) ELSE NoB],
                  !.keys = [k \in DeclNames |->
                              IF \E a \in used : keyOf(a) = k
                              THEN bindingOf(CHOOSE a \in used : keyOf(a) = k)
                              ELSE NoB]]
    IN  IF used \cap Reserved # {} THEN [sc |-> sc, ok |-> FALSE]
        ELSE IF \E a, b \in used : a # b /\ keyOf(a) = keyOf(b)
        THEN [sc |-> sc, ok |-> FALSE]
        ELSE [sc |-> [n \in Nodes |->
                        IF n = id THEN cls
                        ELSE IF \E a \in used : namespace[a] = n
                        THEN [sc[n] EXCEPT !.parents = @ \cup {id}]
                        ELSE sc[n]],
              ok |-> TRUE]

\* ListOption.__init__(items=item): list mode for an item, no translation
\* for item = 0 (None)
NewListOption(sc, id, item) ==
    [n \in Nodes |->
        IF n = id
        THEN [NoNode EXCEPT !.kind = "list", !.dflt = "unset",
                            !.cache = NoneCache, !.items = item]
        ELSE IF n = item THEN [sc[n] EXCEPT !.parents = @ \cup {id}]
        ELSE sc[n]]

\* the next identity to hand out (0: none left)
NextNode(sc) ==
    IF \E n \in Nodes : sc[n].kind = "none"
    THEN CHOOSE n \in Nodes : sc[n].kind = "none" /\ \A m \in Nodes : m < n => sc[m].kind # "none"
    ELSE 0

----------------------------------------------------------------------------
(* SpecInv: _schema_invalidate on arbitrary parent graphs.  The objects    *)
(* are the test doubles of SchemaInvalidateTest: any parent sets (cycles   *)
(* and self-parents included), each with a cached schema, with             *)
(* _schema_cache None, or without the attribute.                           *)

InvNodes == {1, 2, 3}
MockDoc == {<<(<<>>), "mock", <<>>>>}
MockCaches == {NoCacheAttr, NoneCache, Cached(MockDoc)}

InvInit ==
    /\ \E par \in [InvNodes -> SUBSET InvNodes], cache \in [InvNodes -> MockCaches] :
          sch = [n \in Nodes |->
                   IF n \in InvNodes
                   THEN [NoNode EXCEPT !.kind = "mock", !.parents = par[n],
                                       !.cache = cache[n]]
                   ELSE NoNode]
    /\ heap = <<>>
    /\ cows = <<>>
    /\ inst = NoInst
    /\ nops = 0
    /\ fs = NoFiles /\ inv = NoInv /\ mrg = NoMerge /\ gen = NoGen /\ call = NoCall /\ log = <<>>
    /\ lastOp = [op |-> "init", n |-> 0, cleared |-> {}]

Invalidate(n) ==
    /\ sch' = SchemaInvalidate(sch, n)
    /\ lastOp' = [op |-> "invalidate", n |-> n,
                  cleared |-> {m \in Nodes : sch'[m].cache # sch[m].cache}]
    /\ UNCHANGED <<gen, call, log, mrg, inv, fs, heap, cows, inst, nops>>

InvNext == \E n \in InvNodes : Invalidate(n)

SpecInv == InvInit /\ [][InvNext]_vars

\* every structural parent reachable through the parent sets
RECURSIVE ParentClosure(_, _)
ParentClosure(sc, found) ==
    LET more == UNION {sc[m].parents : m \in found} \ found
    IN  IF more = {} THEN found ELSE ParentClosure(sc, found \cup more)

\* the parents reachable through nodes that hold a cached schema
RECURSIVE CachedClosure(_, _)
CachedClosure(sc, found) ==
    LET more == UNION {sc[m].parents :
                         m \in {f \in found : sc[f].cache.st = "doc"}} \ found
    IN  IF more = {} THEN found ELSE CachedClosure(sc, found \cup more)

\* C8 (as stated): invalidating a node leaves the cache of the node and of
\* every parent reachable transitively through the parent sets empty, and
\* invalidating a node whose cache is already empty changes no cache.
C8_InvalidateClearsEveryParent ==
    [][lastOp'.op = "invalidate" =>
         /\ \A p \in ParentClosure(sch, {lastOp'.n}) : sch'[p].cache.st # "doc"
         /\ sch[lastOp'.n].cache.st # "doc" => sch' = sch]_vars

\* C8 (amended): invalidating a node empties exactly the caches of the node
\* and of the parents reachable from it through nodes that held a cached
\* schema, on every parent graph, cycles included; no other cache changes,
\* no parent set changes, and invalidating a node whose cache is already
\* empty changes nothing.
C8_InvalidateClearsCachedChain ==
    [][lastOp'.op = "invalidate" =>
         /\ \A p \in Nodes :
               sch'[p] = IF p \in CachedClosure(sch, {lastOp'.n})
                            /\ sch[p].cache.st = "doc"
                         THEN [sch[p] EXCEPT !.cache = NoneCache]
                         ELSE sch[p]
         /\ sch[lastOp'.n].cache.st # "doc" => sch' = sch]_vars

\* an invalidation that emptied three caches around a parent cycle
C8_Witness ==
    /\ lastOp.op = "invalidate"
    /\ lastOp.n = 1
    /\ lastOp.cleared = {1, 2, 3}
    /\ sch[1].parents = {2}
    /\ sch[2].parents = {3}
    /\ sch[3].parents = {2}

\* C32: invalidation does not propagate through a node whose cache is
\* already empty or that has no cache: an ancestor of the invalidated node
\* that is reachable from it only through such a node keeps its cached
\* schema.
C32_EmptyCacheStopsPropagation ==
    [][lastOp'.op = "invalidate" =>
         \A p \in ParentClosure(sch, {lastOp'.n}) \ CachedClosure(sch, {lastOp'.n}) :
             sch'[p].cache = sch[p].cache]_vars

\* node 1 was invalidated; its only parent 2 has no cached schema, and 3,
\* the parent of 2, still holds its own
C32_Witness ==
    /\ lastOp.op = "invalidate"
    /\ lastOp.n = 1
    /\ lastOp.cleared = {1}
    /\ sch[1].parents = {2}
    /\ sch[2].parents = {3}
    /\ sch[2].cache.st # "doc"
    /\ sch[3].cache.st = "doc"

----------------------------------------------------------------------------
(* _schema_invalidate, one step per round of its loop, on parent graphs in *)
(* which every object has a parent: each lies on a cycle or leads to one.  *)

\* one round of `while queue` in which every parent is queued, seen or not
InvalidateStep_NoSeen(sc, f) ==
    LET work == Head(f.queue) IN
    IF sc[work].cache.st # "doc"
    THEN [sc |-> sc, queue |-> Tail(f.queue), seen |-> f.seen, fresh |-> <<>>]
    ELSE [sc |-> [sc EXCEPT ![work].cache = NoneCache],
          queue |-> Tail(f.queue) \o SeqOf(sc[work].parents),
          seen |-> f.seen \cup sc[work].parents,
          fresh |-> SeqOf(sc[work].parents)]

\* one round of `while queue`: the work item is popped; when it holds a
\* cached schema the cache is emptied and its unseen parents are queued
InvalidateStep(sc, f) ==
    LET work == Head(f.queue)
        fresh == sc[work].parents \ f.seen
    IN  IF sc[work].cache.st # "doc"
        THEN [sc |-> sc, queue |-> Tail(f.queue), seen |-> f.seen,
              fresh |-> <<>>]
        ELSE [sc |-> [sc EXCEPT ![work].cache = NoneCache],
              queue |-> Tail(f.queue) \o SeqOf(fresh),
              seen |-> f.seen \cup fresh,
              fresh |-> SeqOf(fresh)]

LoopInit ==
    /\ \E par \in [InvNodes -> SUBSET InvNodes \ {{}}],
          cache \in [InvNodes -> {NoneCache, Cached(MockDoc)}] :
          /\ cache[1] = Cached(MockDoc)
          /\ sch = [n \in Nodes |->
                      IF n \in InvNodes
                      THEN [NoNode EXCEPT !.kind = "mock", !.parents = par[n],
                                          !.cache = cache[n]]
                      ELSE NoNode]
    /\ inv = [NoInv EXCEPT !.pc = "idle"]
    /\ heap = <<>>
    /\ cows = <<>>
    /\ inst = NoInst
    /\ nops = 0
    /\ fs = NoFiles /\ mrg = NoMerge /\ gen = NoGen /\ call = NoCall /\ log = <<>>
    /\ lastOp = [op |-> "init", n |-> 0, cleared |-> {}]

\* _schema_invalidate(child) is called: seen and queue hold the child
LoopCall(child) ==
    /\ inv.pc = "idle"
    /\ inv' = [pc |-> "loop", queue |-> <<child>>, seen |-> {child},
               enq |-> <<child>>, popped |-> <<>>]
    /\ UNCHANGED <<sch, heap, cows, lastOp, nops, gen, call, log, mrg, fs, inst>>

LoopWork ==
    /\ inv.pc = "loop"
    /\ inv.queue # <<>>
    /\ sch' = InvalidateStep(sch, inv).sc
    /\ inv' = [inv EXCEPT !.queue = InvalidateStep(sch, inv).queue,
                          !.seen = InvalidateStep(sch, inv).seen,
                          !.enq = @ \o InvalidateStep(sch, inv).fresh,
                          !.popped = Append(@, Head(inv.queue))]
    /\ UNCHANGED <<heap, cows, lastOp, nops, gen, call, log, mrg, fs, inst>>

LoopReturn ==
    /\ inv.pc = "loop"
    /\ inv.queue = <<>>
    /\ inv' = [inv EXCEPT !.pc = "done"]
    /\ UNCHANGED <<sch, heap, cows, lastOp, nops, gen, call, log, mrg, fs, inst>>

LoopNext ==
    \/ \E child \in InvNodes : LoopCall(child)
    \/ LoopWork
    \/ LoopReturn

\* the loop runs on: no round waits for anything
SpecLoop == LoopInit /\ [][LoopNext]_vars /\ WF_vars(LoopNext)

NoRepeat(q) == \A i, j \in 1..Len(q) : q[i] = q[j] => i = j

\* C33: on every finite parent graph, also when objects are (transitively)
\* their own parents, an invalidation reaches its end, and no object is put
\* on the queue or taken from it more than once.
C33_InvalidateTerminates ==
    /\ <>(inv.pc = "done")
    /\ [](NoRepeat(inv.enq) /\ NoRepeat(inv.popped))

\* an invalidation that ended after going once round the cycle 1 -> 2 -> 3
\* -> 1, in which 2 is also its own parent
C33_Witness ==
    /\ inv.pc = "done"
    /\ sch[1].parents = {2}
    /\ sch[2].parents = {2, 3}
    /\ sch[3].parents = {1}
    /\ inv.popped = <<1, 2, 3>>
    /\ \A n \in InvNodes : sch[n].cache = NoneCache

----------------------------------------------------------------------------
(* SpecSchema: options and classes are created, classes are extended and   *)
(* schemas are read.  One plain option exists from the start: either an    *)
(* Option with a default, or a required Option with its own key.           *)

SchemaOrders == {<<"x", "y">>, <<"y", "x">>}
Existing(sc) == {n \in Nodes : sc[n].kind # "none"}

SchemaInit ==
    /\ \E first \in {NewOption("value", ""), NewOption("unset", "y")} :
          sch = [n \in Nodes |-> IF n = 1 THEN first ELSE NoNode]
    /\ heap = <<>>
    /\ cows = <<>>
    /\ inst = NoInst
    /\ nops = 0
    /\ fs = NoFiles /\ inv = NoInv /\ mrg = NoMerge /\ gen = NoGen /\ call = NoCall /\ log = <<>>
    /\ lastOp = [op |-> "init", n |-> 0, ok |-> TRUE]

MakeList(item) ==
    /\ NextNode(sch) # 0
    /\ sch' = NewListOption(sch, NextNode(sch), item)
    /\ lastOp' = [op |-> "list", n |-> NextNode(sch), ok |-> TRUE]
    /\ UNCHANGED <<gen, call, log, mrg, inv, fs, heap, cows, inst, nops>>

Declare(namespace, dflt) ==
    /\ NextNode(sch) # 0
    /\ LET r == DeclareClass(sch, NextNode(sch), namespace, dflt) IN
         /\ sch' = r.sc
         /\ lastOp' = [op |-> "declare", ok |-> r.ok,
                       n |-> IF r.ok THEN NextNode(sch) ELSE 0]
    /\ UNCHANGED <<gen, call, log, mrg, inv, fs, heap, cows, inst, nops>>

\* the names extend() is called with
ExtendNames ==
    { Str(<<>>), Str(<<"x">>), Str(<<"load">>), Str(<<"/", "x", "/", "y">>),
      List(<<"", "y", "", "x">>) }

\* the object the call extends (0: none, the call fails before)
ExtendTarget(sc, cls, p) ==
    IF p.err # "" THEN 0
    ELSE IF p.path = <<>> THEN cls ELSE LookupPath(sc, cls, p.path)

Extended(r, target) ==
    /\ sch' = r.sc
    /\ lastOp' = [op |-> "extend", ok |-> r.ok, err |-> r.err,
                  n |-> IF r.ok THEN target ELSE 0]
    /\ UNCHANGED <<gen, call, log, mrg, inv, fs, heap, cows, inst, nops>>

\* cls.extend(name, option, key)
Extend(cls, name, option, key) ==
    \* schemas are trees: no object is made to embed itself
    LET target == ExtendTarget(sch, cls, ExtendParse(name)) IN
    /\ target # 0 => option \notin ({target} \cup Embedders(sch, target, {}))
    /\ Extended(ExtendName(sch, cls, name, option, key), target)

ReadSchema(n, order) ==
    /\ LET r == SchemaGet(sch, n, order) IN
         /\ sch' = r.sc
         /\ lastOp' = [op |-> "schema", n |-> n, ok |-> r.ok]
    /\ UNCHANGED <<gen, call, log, mrg, inv, fs, heap, cows, inst, nops>>

SchemaNext ==
    \/ \E item \in {0} \cup Existing(sch) : MakeList(item)
    \/ \E namespace \in {f \in [DeclNames -> {0} \cup Existing(sch)] :
                               f["load"] \in {0, 1}},
           dflt \in {"missing", "value"} : Declare(namespace, dflt)
    \/ \E cls \in {n \in Nodes : sch[n].kind = "config"}, name \in ExtendNames,
           option \in Existing(sch), key \in {"", "x"} :
          Extend(cls, name, option, key)
    \/ \E n \in Existing(sch), order \in SchemaOrders : ReadSchema(n, order)

SpecSchema == SchemaInit /\ [][SchemaNext]_vars

\* C7: immediately after a successful extend() on a node N, the cached
\* schema of N is empty and so is the cached schema of every node that
\* embeds N as a field or as a list item, directly or transitively.
C7_ExtendEmptiesEmbedders ==
    (lastOp.op = "extend" /\ lastOp.ok) =>
        \A p \in {lastOp.n} \cup Embedders(sch, lastOp.n, {}) :
            sch[p].cache.st # "doc"

\* the objects with every cached schema dropped: what a computation from
\* the field registries alone starts from
Uncached(sc) ==
    [n \in Nodes |->
        IF sc[n].cache.st = "doc" THEN [sc[n] EXCEPT !.cache = NoneCache]
        ELSE sc[n]]

\* C37: after any declarations, extend() calls and schema reads, reading the
\* schema of any node gives the document a fresh computation from the
\* current field registries of the node and its descendants gives: a stale
\* cached schema is never returned.
C37_NoStaleSchema ==
    \A n \in Existing(sch), order \in SchemaOrders :
        LET read == SchemaGet(sch, n, order)
            fresh == SchemaGet(Uncached(sch), n, order)
        IN  /\ read.ok = fresh.ok
            /\ read.ok => read.doc = fresh.doc

\* the names of the 'properties' of a schema document and its 'required'
\* list
PropertyNames(doc) == {e[1][1] : e \in {d \in doc : Len(d[1]) = 1}}
RequiredOf(doc) == (CHOOSE e \in doc : e[1] = <<>>)[3]

\* the nodes declared as Config subclasses whose schema is cached
CachedConfigs == {n \in Nodes : sch[n].kind = "config" /\ sch[n].cache.st = "doc"}

\* the fields of node n, by declared name and by source key
FieldNames(n) == {a \in DeclNames : sch[n].attrs[a] # NoB}
FieldKeys(n) == {k \in DeclNames : sch[n].keys[k] # NoB}

\* C15 (as stated): the generated schema of a node has exactly one
\* 'properties' entry per declared field, keyed by the field's declared name
\* and not by its source key, and 'required' is the sorted list of the
\* declared names of the fields that have no default.
C15_PropertiesByFieldName ==
    \A n \in CachedConfigs :
        /\ PropertyNames(sch[n].cache.doc) = FieldNames(n)
        /\ RequiredOf(sch[n].cache.doc) =
               Sorted({a \in FieldNames(n) :
                          sch[sch[n].attrs[a].option].dflt = "unset"})

\* C15 (amended): the generated schema of a node has exactly one
\* 'properties' entry per declared field, keyed by the field's source key
\* and not by its declared name, and 'required' is the sorted list of the
\* source keys of the fields that have no default.
C15_PropertiesBySourceKey ==
    \A n \in CachedConfigs :
        /\ PropertyNames(sch[n].cache.doc) = FieldKeys(n)
        /\ Cardinality(PropertyNames(sch[n].cache.doc))
               = Cardinality(FieldNames(n))
        /\ RequiredOf(sch[n].cache.doc) =
               Sorted({k \in FieldKeys(n) :
                          sch[sch[n].keys[k].option].dflt = "unset"})

C15_Witness ==
    /\ lastOp.op = "schema" /\ lastOp.ok
    /\ lastOp.n \in CachedConfigs
    /\ sch[lastOp.n].attrs["x"] # NoB
    /\ sch[lastOp.n].attrs["x"].key = "y"
    /\ sch[sch[lastOp.n].attrs["x"].option].dflt = "unset"
    /\ RequiredOf(sch[lastOp.n].cache.doc) = <<"y">>
    /\ PropertyNames(sch[lastOp.n].cache.doc) = {"y"}

\* the names and keys the statements about extend() and lookup() range over
PathNames ==
    ExtendNames \cup
    { Str(<<"/">>), Str(<<"/", "y">>), Str(<<"/", "/", "y", "/", "x", "/">>),
      List(<<"y">>), List(<<"x", "y">>), List(<<"x", "">>), List(<<"">>),
      List(<<"y", "load">>) }
PathKeys == {"", "x", "y"}
ConfigNodes == {n \in Nodes : sch[n].kind = "config"}

\* C16: extend() fails with a definition error when the leaf name is
\* reserved, when the target node already has a field with that name, when
\* the source key is already used by a field of the target node, or when the
\* target is a leaf option; a failed extend() leaves the attrs and keys
\* registries and every schema cache unchanged.
C16_ExtendFailures ==
    \A cls \in ConfigNodes, name \in PathNames, option \in Existing(sch),
       key \in PathKeys :
        LET p == ExtendParse(name)
            target == ExtendTarget(sch, cls, p)
            k == IF key = "" THEN p.attr ELSE key
            r == ExtendName(sch, cls, name, option, key)
        IN  /\ (p.err = "" /\ p.attr \in Reserved) => r.err = "config"
            /\ (p.err = "" /\ p.attr \notin Reserved /\ target # 0) =>
                  /\ sch[target].kind = "option" => r.err = "config"
                  /\ (sch[target].kind = "config"
                      /\ p.attr \in FieldNames(target)) => r.err = "config"
                  /\ (sch[target].kind = "config"
                      /\ k \in FieldKeys(target)) => r.err = "config"
            /\ r.err = "config" => ~r.ok
            /\ ~r.ok => r.sc = sch

\* a failed extend() with a cached schema in place: the field name or the key
\* was taken, the name was reserved or empty, or the target was an option
C16_Witness ==
    /\ lastOp.op = "extend" /\ ~lastOp.ok /\ lastOp.err = "config"
    /\ \E n \in ConfigNodes :
          /\ sch[n].cache.st = "doc"
          /\ FieldNames(n) # {}
          /\ \E a \in FieldNames(n) : sch[n].attrs[a].key # a

\* the last name of a path that is not empty ("" when there is none)
RECURSIVE LastNonEmpty(_)
LastNonEmpty(names) ==
    IF names = <<>> THEN ""
    ELSE IF names[Len(names)] # "" /\ names[Len(names)] # "/"
    THEN names[Len(names)]
    ELSE LastNonEmpty(SubSeq(names, 1, Len(names) - 1))

\* C17: after extend(path, descriptor, key) succeeds, lookup(path) with the
\* same path returns a Binding whose field name is the last non-empty
\* segment of the path, whose source key is key (the field name when no key
\* is given) and whose descriptor is the given descriptor, for every path
\* form: bare name, slash-prefixed string, list of segments.
C17_LookupFindsExtension ==
    \A cls \in ConfigNodes, name \in PathNames, option \in Existing(sch),
       key \in PathKeys :
        LET r == ExtendName(sch, cls, name, option, key)
            attr == LastNonEmpty(name.v)
        IN  r.ok =>
               Lookup(r.sc, cls, name) =
                   AtBinding(Binding(attr, IF key = "" THEN attr ELSE key,
                                     option))

\* an extension registered two levels down, under a key of its own, which
\* lookup() finds by the slash form and by the list form of the path
C17_Witness ==
    /\ lastOp.op = "extend" /\ lastOp.ok
    /\ \E cls \in ConfigNodes :
          /\ lastOp.n # cls
          /\ Lookup(sch, cls, Str(<<"/", "x", "/", "y">>)).res = "binding"
          /\ Lookup(sch, cls, Str(<<"/", "x", "/", "y">>)).b.key = "x"
          /\ Lookup(sch, cls, List(<<"x", "", "y">>))
                 = Lookup(sch, cls, Str(<<"/", "x", "/", "y">>))
          /\ sch[lastOp.n].attrs["y"] = Lookup(sch, cls, List(<<"x", "y">>)).b

\* the class bodies a declaration is checked with, and the key a body gives
\* the field a: the __key__ of the object assigned, the attribute otherwise
ClassBodies == [DeclNames -> {0} \cup Existing(sch)]
BodyFields(namespace) == {a \in DeclNames : namespace[a] # 0}
BodyKey(namespace, a) ==
    IF sch[namespace[a]].okey # "" THEN sch[namespace[a]].okey ELSE a

\* C18: declaring a schema node fails with a definition error, and creates
\* no node and registers no parent edge, if any declared attribute name is
\* reserved or if two fields declared in the node resolve to the same source
\* key (explicit keys and defaulted field names alike).
C18_DeclareFailures ==
    NextNode(sch) # 0 =>
        \A namespace \in ClassBodies, dflt \in {"missing", "value"} :
            LET r == DeclareClass(sch, NextNode(sch), namespace, dflt)
                fields == BodyFields(namespace)
            IN  /\ (fields \cap Reserved # {}) => ~r.ok
                /\ (\E a, b \in fields :
                       a # b /\ BodyKey(namespace, a) = BodyKey(namespace, b))
                       => ~r.ok
                /\ ~r.ok => r.sc = sch

\* a declaration has just failed where no object carries a key of its own
\* (so a reserved name was declared), with a class declared before it whose
\* option is still embedded by that class only
C18_Witness ==
    /\ lastOp.op = "declare" /\ ~lastOp.ok
    /\ sch[1].okey = ""
    /\ sch[2].kind = "config" /\ sch[2].attrs["x"] # NoB
    /\ sch[2].attrs["x"].option = 1
    /\ sch[1].parents = {2}
    /\ NextNode(sch) = 3

\* the Bindings a node holds in _attrs and in _keys
AttrBindings(n) == {sch[n].attrs[a] : a \in FieldNames(n)}
KeyBindings(n) == {sch[n].keys[k] : k \in FieldKeys(n)}

\* C19: after any sequence of declarations and successful or failed extend()
\* calls, each node's attrs and keys registries hold exactly the same set of
\* Bindings: every Binding b is registered under exactly one field name and
\* one source key, with attrs[b.field] = b and keys[b.key] = b, and no
\* registered field name is reserved.
C19_RegistriesAgree ==
    \A n \in ConfigNodes :
        /\ AttrBindings(n) = KeyBindings(n)
        /\ \A a \in FieldNames(n) :
              /\ sch[n].attrs[a].attr = a
              /\ sch[n].keys[sch[n].attrs[a].key] = sch[n].attrs[a]
        /\ \A k \in FieldKeys(n) :
              /\ sch[n].keys[k].key = k
              /\ sch[n].attrs[sch[n].keys[k].attr] = sch[n].keys[k]
        /\ Cardinality(FieldNames(n)) = Cardinality(AttrBindings(n))
        /\ Cardinality(FieldKeys(n)) = Cardinality(AttrBindings(n))
        /\ FieldNames(n) \cap Reserved = {}

\* a node with a declared field and an extension, one of them under a key
\* that is not its name, just after an extend() that failed
C19_Witness ==
    /\ lastOp.op = "extend" /\ ~lastOp.ok
    /\ \E n \in ConfigNodes :
          /\ FieldNames(n) = {"x", "y"}
          /\ \E a \in FieldNames(n) : sch[n].attrs[a].key # a

----------------------------------------------------------------------------
(* SpecClass: Cfg.load(files) makes the instance (Load.class_load), which  *)
(* is then read and loaded into as in SpecLoad.                            *)

\* Load.class_load that constructs the instance whatever the validator says
ClassLoadMade_IgnoreVerdict(m, validate, valid) ==
    IF m.raised # <<>>
    THEN [h |-> <<>>, made |-> FALSE, status |-> "mismatch",
          validated |-> FALSE, checked |-> {}]
    ELSE [h |-> m.h, made |-> TRUE,
          status |-> IF validate /\ ~valid THEN "invalid" ELSE "ok",
          validated |-> validate,
          checked |-> IF validate THEN DeepVal(m.h, m.final) ELSE {}]

\* Load.class_load once _load has ended with m: validate, cls(raw).  made
\* tells whether an instance was constructed, validated whether
\* cls.validate was called and checked the mapping it was called with
ClassLoadMade(m, validate, valid) ==
    IF m.raised # <<>>
    THEN [h |-> <<>>, made |-> FALSE, status |-> "mismatch",
          validated |-> FALSE, checked |-> {}]
    ELSE IF validate /\ ~valid
    THEN [h |-> <<>>, made |-> FALSE, status |-> "invalid",
          validated |-> TRUE, checked |-> DeepVal(m.h, m.final)]
    ELSE [h |-> m.h, made |-> TRUE, status |-> "ok", validated |-> validate,
          checked |-> IF validate THEN DeepVal(m.h, m.final) ELSE {}]

\* Load.class_load(cls, files, validate)
ClassLoadResult(files, validate, valid, order) ==
    ClassLoadMade(Load(<<>>, <<>>, Absent, files, order), validate, valid)

ClassInit ==
    /\ heap = <<>>
    /\ cows = <<>>
    /\ lastOp = [op |-> "init"]
    /\ nops = 0
    /\ fs = NoFiles /\ inv = NoInv /\ mrg = NoMerge /\ gen = NoGen /\ call = NoCall /\ log = <<>>
    /\ inst = NoInst
    /\ sch = NoSchema

ClassLoaded(r, cls, files, validate) ==
    /\ heap' = IF r.made THEN Collect(r.h, NoMemo) ELSE heap
    /\ inst' = IF r.made THEN [xlated |-> NoMemo, cls |-> cls] ELSE inst
    /\ lastOp' = [op |-> "class", files |-> files, validate |-> validate,
                  status |-> r.status, validated |-> r.validated,
                  checked |-> r.checked]
    /\ UNCHANGED <<gen, call, log, mrg, inv, fs, cows, nops, sch>>

\* cls.load(files, validate)
ClassLoad(cls, files, validate, valid, order) ==
    /\ inst = NoInst
    /\ ClassLoaded(ClassLoadResult(files, validate, valid, order), cls,
                   files, validate)

ClassNext ==
    \/ \E cls \in Classes, files \in FileLists, validate \in BOOLEAN,
          valid \in BOOLEAN, order \in KeyOrders :
            (validate \/ valid) /\ ClassLoad(cls, files, validate, valid, order)
    \/ inst # NoInst /\ LoadNext

SpecClass == ClassInit /\ [][ClassNext]_vars

\* the empty mapping
EmptyMap == DeepVal(<<EmptyDict>>, D(1))

\* the mapping one class-level load of the documents yields
OnePass(files) ==
    LET m == Load(<<>>, <<>>, Absent, files, <<"a", "b">>)
    IN  DeepVal(m.h, m.final)

\* C11: when documents A, B and C have no structural conflict, an
\* instance-level load of [C] on the instance a class-level load of [A, B]
\* made succeeds and leaves the raw mapping a single class-level load of
\* [A, B, C] yields.
C11_SplitLoadEqualsOnePass ==
    [][(/\ lastOp.op = "class" /\ lastOp.status = "ok"
        /\ Len(lastOp.files) = 2
        /\ lastOp'.op = "load" /\ Len(lastOp'.files) = 1
        /\ lastOp'.status # "invalid"
        /\ ~RConflictAll(EmptyMap, lastOp.files \o lastOp'.files)) =>
          /\ lastOp'.status = "ok"
          /\ DeepVal(heap', D(1)) = OnePass(lastOp.files \o lastOp'.files)]_vars

\* C12: a class-level load validates exactly when validation is enabled,
\* and then it validates the merge of all the documents over an empty
\* mapping; it makes no instance when the merge or the validation failed;
\* otherwise the instance holds the merged mapping and an empty cache.
C12_ClassLoadOrder ==
    [][lastOp'.op = "class" =>
         LET files == lastOp'.files
             clash == RConflictAll(EmptyMap, files)
         IN  /\ lastOp'.status = "mismatch" <=> clash
             /\ lastOp'.validated = (lastOp'.validate /\ ~clash)
             /\ lastOp'.validated => lastOp'.checked = RMergeAll(EmptyMap, files)
             /\ lastOp'.status # "ok" => (inst' = NoInst /\ heap' = heap)
             /\ lastOp'.status = "ok" =>
                   /\ inst' # NoInst
                   /\ inst'.xlated = NoMemo
                   /\ DeepVal(heap', D(1)) = RMergeAll(EmptyMap, files)]_vars

\* a class-level load of two documents with nested mappings made an
\* instance without validating
C12_Witness ==
    /\ lastOp.op = "class"
    /\ lastOp.status = "ok"
    /\ ~lastOp.validate
    /\ Len(lastOp.files) = 2
    /\ inst # NoInst
    /\ \E k \in Keys : IsDict(heap[1][k])

----------------------------------------------------------------------------
(* SpecFiles: Load._iter_files over a file system.  A path is the sequence *)
(* of its names, each name one character, so that the order of the paths   *)
(* as strings is the order of the sequences name by name ('/' sorts before *)
(* every name).                                                            *)

MaxSpecs == 2

\* the names, in the order sorted() gives them
Names == <<"a", "b">>
Rank(name) == CHOOSE i \in 1..Len(Names) : Names[i] = name

\* the paths of the file system, and what a path can name: nothing, a
\* regular file, a directory, or something else (a FIFO, say)
FilePaths ==
    { <<"a">>, <<"b">>, <<"a", "a">>, <<"a", "b">>, <<"b", "a">>, <<"b", "b">>,
      <<"a", "b", "a">> }
Kinds == {"none", "file", "dir", "other"}
FileSystems ==
    {f \in [FilePaths -> Kinds] :
        \A p \in FilePaths :
            (Len(p) > 1 /\ f[p] # "none") => f[SubSeq(p, 1, Len(p) - 1)] = "dir"}

\* os.path.isfile, os.path.isdir, os.path.join
IsFile(f, p) == p \in FilePaths /\ f[p] = "file"
IsDir(f, p) == p \in FilePaths /\ f[p] = "dir"
Join(fname, entry) == Append(fname, entry)

\* os.listdir(fname): the entries of the directory, in the order the system
\* happens to give them
ListDir(f, fname, order) ==
    SelectSeq(order, LAMBDA entry : Join(fname, entry) \in FilePaths
                                    /\ f[Join(fname, entry)] # "none")

\* glob.glob(fname): the existing paths the pattern matches ('*' matches any
\* one name), in the order the system happens to give them
Match(pattern, p) ==
    /\ Len(pattern) = Len(p)
    /\ \A i \in 1..Len(p) : pattern[i] = "*" \/ pattern[i] = p[i]
Glob(f, pattern, porder) ==
    SelectSeq(porder, LAMBDA p : f[p] # "none" /\ Match(pattern, p))

\* the order of two paths as strings
RECURSIVE PathLess(_, _)
PathLess(p, q) ==
    IF q = <<>> THEN FALSE
    ELSE IF p = <<>> THEN TRUE
    ELSE IF Head(p) # Head(q) THEN Rank(Head(p)) < Rank(Head(q))
    ELSE PathLess(Tail(p), Tail(q))

\* sorted() that leaves the sequence as it is
SortedNames_AsListed(entries) == entries

\* sorted() of a list of names and of a list of paths
SortedNames(entries) == SortSeq(entries, LAMBDA x, y : Rank(x) < Rank(y))
SortedPaths(paths) == SortSeq(paths, LAMBDA p, q : PathLess(p, q))

\* the directory branch of _iter_files that also walks the sub-directories
RECURSIVE DirFiles_Recursive(_, _, _, _)
DirFiles_Recursive(f, fname, entries, order) ==
    IF entries = <<>> THEN <<>>
    ELSE LET path == Join(fname, Head(entries)) IN
         (IF IsFile(f, path) THEN <<path>>
          ELSE IF IsDir(f, path)
          THEN DirFiles_Recursive(f, path,
                                  SortedNames(ListDir(f, path, order)), order)
          ELSE <<>>)
         \o DirFiles_Recursive(f, fname, Tail(entries), order)

\* the directory branch of _iter_files: entries are the sorted entries
RECURSIVE DirFiles(_, _, _, _)
DirFiles(f, fname, entries, order) ==
    IF entries = <<>> THEN <<>>
    ELSE LET path == Join(fname, Head(entries)) IN
         (IF IsFile(f, path) THEN <<path>> ELSE <<>>)
         \o DirFiles(f, fname, Tail(entries), order)

\* the body of the loop of _iter_files for one entry of the list
IterOne(f, fname, order, porder) ==
    IF IsFile(f, fname) THEN <<fname>>
    ELSE IF IsDir(f, fname)
    THEN DirFiles(f, fname, SortedNames(ListDir(f, fname, order)), order)
    ELSE SelectSeq(SortedPaths(Glob(f, fname, porder)),
                   LAMBDA entry : IsFile(f, entry))

RECURSIVE IterList(_, _, _, _)
IterList(f, files, order, porder) ==
    IF files = <<>> THEN <<>>
    ELSE IterOne(f, Head(files), order, porder)
         \o IterList(f, Tail(files), order, porder)

\* the argument of _iter_files: one name, or a list of names
OneName(fname) == [form |-> "str", name |-> fname, list |-> <<>>]
NameList(files) == [form |-> "list", name |-> <<>>, list |-> files]

\* files = [files] for a string
Wrap(files) == IF files.form = "str" THEN <<files.name>> ELSE files.list

\* Load._iter_files(files): the names yielded, in order
IterFiles(f, files, order, porder) ==
    IterList(f, Wrap(files), order, porder)

\* the names and patterns given, the orders os.listdir answers in and the
\* orders glob.glob answers in
FileSpecs ==
    { <<"a">>, <<"b">>, <<"a", "b">>, <<"b", "*">>, <<"*">>, <<"*", "a">> }
FileArgs ==
    {OneName(n) : n \in FileSpecs}
    \cup {NameList(l) : l \in UNION {[1..k -> FileSpecs] : k \in 0..MaxSpecs}}
ListOrders == {<<"a", "b">>, <<"b", "a">>}
GlobOrders ==
    { << <<"a">>, <<"a", "a">>, <<"a", "b">>, <<"a", "b", "a">>, <<"b">>,
         <<"b", "a">>, <<"b", "b">> >>,
      << <<"b", "b">>, <<"b", "a">>, <<"b">>, <<"a", "b", "a">>, <<"a", "b">>,
         <<"a", "a">>, <<"a">> >> }

FilesInit ==
    /\ fs \in FileSystems
    /\ inv = NoInv
    /\ mrg = NoMerge
    /\ gen = NoGen /\ call = NoCall /\ log = <<>>
    /\ heap = <<>>
    /\ cows = <<>>
    /\ inst = NoInst
    /\ sch = NoSchema
    /\ nops = 0
    /\ lastOp = [op |-> "init", files |-> NameList(<<>>), r |-> <<>>]

\* one call of _iter_files; the call reads the file system and changes
\* nothing, so one call per behaviour covers every call
Iterate(files, order, porder) ==
    /\ lastOp.op = "init"
    /\ lastOp' = [op |-> "iter", files |-> files,
                  r |-> IterFiles(fs, files, order, porder)]
    /\ UNCHANGED <<gen, call, log, mrg, inv, fs, heap, cows, inst, sch, nops>>

FilesNext ==
    \E files \in FileArgs, order \in ListOrders, porder \in GlobOrders :
        Iterate(files, order, porder)

SpecFiles == FilesInit /\ [][FilesNext]_vars

\* the sequence that holds the paths of a set once each, in ascending order
Ascending(paths) ==
    CHOOSE s \in [1..Cardinality(paths) -> paths] :
        \A i, j \in 1..Cardinality(paths) : i < j => PathLess(s[i], s[j])

\* what one specification is to contribute: the file it names, the regular
\* files directly inside the directory it names, or the regular files it
\* matches as a pattern
Contribution(spec) ==
    IF spec \in FilePaths /\ fs[spec] = "file" THEN <<spec>>
    ELSE IF spec \in FilePaths /\ fs[spec] = "dir"
    THEN Ascending({p \in FilePaths :
                       /\ fs[p] = "file"
                       /\ Len(p) = Len(spec) + 1
                       /\ SubSeq(p, 1, Len(spec)) = spec})
    ELSE Ascending({p \in FilePaths : fs[p] = "file" /\ Match(spec, p)})

RECURSIVE Contributions(_)
Contributions(specs) ==
    IF specs = <<>> THEN <<>>
    ELSE Contribution(Head(specs)) \o Contributions(Tail(specs))

\* C20: file discovery yields files in the order of the given
\* specifications; one naming a file yields that file, one naming a
\* directory yields the regular files directly inside it in sorted order
\* (sub-directories are neither yielded nor descended into), any other is a
\* glob whose matching regular files are yielded in sorted order, and one
\* matching nothing contributes no file and no error.
C20_FileDiscovery ==
    lastOp.op = "iter" =>
        lastOp.r = Contributions(IF lastOp.files.form = "str"
                                 THEN <<lastOp.files.name>>
                                 ELSE lastOp.files.list)

\* a directory holding a file and a sub-directory with a file of its own,
\* then a pattern matching two files, given by glob.glob in descending order
C20_Witness ==
    /\ lastOp.op = "iter"
    /\ lastOp.files = NameList(<< <<"a">>, <<"*", "a">> >>)
    /\ fs[<<"a", "a">>] = "file" /\ fs[<<"a", "b">>] = "dir"
    /\ fs[<<"a", "b", "a">>] = "file"
    /\ fs[<<"b", "a">>] = "file" /\ fs[<<"b", "b">>] = "other"
    /\ fs[<<"a">>] = "dir" /\ fs[<<"b">>] = "dir"
    /\ lastOp.r = << <<"a", "a">>, <<"a", "a">>, <<"b", "a">> >>

----------------------------------------------------------------------------
(* SpecList: ListOption.__call__ on a ListOption made with no items, with   *)
(* one item description or with a sequence of them.  An item description  *)
(* is an Option ("option"), a Config subclass ("config") or, in a sequence, *)
(* None ("none").                                                          *)

MaxItems == 2
MaxValues == 3

Raw(v) == [t |-> "raw", v |-> v]
Made(v) == [t |-> "config", v |-> v]

\* ListOption.__init__(items=...): the mode and the normalized items
NoItems == [form |-> "none", one |-> "none", seq |-> <<>>]
OneItem(item) == [form |-> "one", one |-> item, seq |-> <<>>]
ItemSeq(items) == [form |-> "seq", one |-> "none", seq |-> items]
ListOptionNew(items) ==
    [mode |-> IF items.form = "none" THEN "noxlate"
              ELSE IF items.form = "seq" THEN "tuple" ELSE "list",
     items |-> items]

\* item(value): Option.__call__ returns the value, a Config subclass makes
\* an instance around it, None is not callable (TypeError)
ItemCall(item, value) ==
    IF item = "option" THEN value
    ELSE IF item = "config" THEN Made(value.v)
    ELSE [t |-> "typeerror", v |-> 0]

\* the comprehension and the loop of ListOption.__call__
RECURSIVE ListCallEach(_, _)
ListCallEach(item, value) ==
    IF value = <<>> THEN <<>>
    ELSE <<ItemCall(item, Head(value))>> \o ListCallEach(item, Tail(value))

RECURSIVE TupleCallFrom(_, _, _)
TupleCallFrom(items, value, idx) ==
    IF idx > Len(value) THEN <<>>
    ELSE <<IF idx <= Len(items) THEN ItemCall(items[idx], value[idx])
           ELSE value[idx]>>
         \o TupleCallFrom(items, value, idx + 1)

\* ListOption.__call__(value): the list returned, or raised = TRUE when an
\* item call raised TypeError
ListOptionCall(opt, value) ==
    LET r == IF opt.mode = "noxlate" THEN value
             ELSE IF opt.mode = "list" THEN ListCallEach(opt.items.one, value)
             ELSE TupleCallFrom(opt.items.seq, value, 1)
    IN  IF \E i \in 1..Len(r) : r[i].t = "typeerror"
        THEN [raised |-> TRUE, r |-> <<>>]
        ELSE [raised |-> FALSE, r |-> r]

\* the ListOption objects and the raw lists they are called with
ItemsArgs ==
    {NoItems} \cup {OneItem(i) : i \in {"option", "config"}}
    \cup {ItemSeq(q) : q \in UNION {[1..k -> {"option", "config", "none"}] :
                                       k \in 0..MaxItems}}
RawLists == UNION {[1..k -> {Raw(v) : v \in Scalars}] : k \in 0..MaxValues}

ListInit ==
    /\ sch \in {ListOptionNew(items) : items \in ItemsArgs}
    /\ heap = <<>>
    /\ cows = <<>>
    /\ inst = NoInst
    /\ fs = NoFiles /\ inv = NoInv /\ mrg = NoMerge /\ gen = NoGen /\ call = NoCall /\ log = <<>>
    /\ nops = 0
    /\ lastOp = [op |-> "init", value |-> <<>>, raised |-> FALSE, r |-> <<>>]

ListCall(value) ==
    /\ lastOp' = [op |-> "call", value |-> value,
                  raised |-> ListOptionCall(sch, value).raised,
                  r |-> ListOptionCall(sch, value).r]
    /\ UNCHANGED <<gen, call, log, mrg, inv, fs, heap, cows, inst, sch, nops>>

ListNext == \E value \in RawLists : ListCall(value)

SpecList == ListInit /\ [][ListNext]_vars

\* C26: ListOption translation returns a list of the same length as the
\* input list in which: in list mode every element is the item descriptor's
\* translation of the input element; in tuple mode the element at position i
\* is the i-th descriptor's translation for the positions the descriptor
\* sequence covers and the unchanged input element beyond it; with no items
\* specification the value is returned unchanged.
C26_ListTranslation ==
    lastOp.op = "call" =>
        /\ ~lastOp.raised
        /\ Len(lastOp.r) = Len(lastOp.value)
        /\ sch.mode = "noxlate" => lastOp.r = lastOp.value
        /\ sch.mode = "list" =>
              \A i \in 1..Len(lastOp.value) :
                  lastOp.r[i] = ItemCall(sch.items.one, lastOp.value[i])
        /\ sch.mode = "tuple" =>
              \A i \in 1..Len(lastOp.value) :
                  lastOp.r[i] = (IF i <= Len(sch.items.seq)
                                 THEN ItemCall(sch.items.seq[i], lastOp.value[i])
                                 ELSE lastOp.value[i])

\* the positions of a tuple-mode descriptor sequence that hold None
NullPositions(opt) ==
    IF opt.mode = "tuple"
    THEN {i \in 1..Len(opt.items.seq) : opt.items.seq[i] = "none"}
    ELSE {}

\* C40: for a tuple-mode ListOption whose descriptor sequence contains a
\* null position, translating a list succeeds, and the element at a null
\* position is passed through untranslated.
C40_NullPositionPassesThrough ==
    (lastOp.op = "call" /\ NullPositions(sch) # {}) =>
        /\ ~lastOp.raised
        /\ Len(lastOp.r) = Len(lastOp.value)
        /\ \A i \in NullPositions(sch) \cap (1..Len(lastOp.value)) :
               lastOp.r[i] = lastOp.value[i]

----------------------------------------------------------------------------
(* Class bodies with internal and plain fields, and tuple-mode ListOptions *)
(* Field names are spelled as sequences: <<"_", "x">> is the name _x.      *)

BodyNames == {<<"x">>, <<"y">>, <<"_", "x">>, <<"load">>}

\* isinstance(value, Option) or a Config subclass; 0 is a plain value
IsSchemaObject(sc, value) ==
    value # 0 /\ sc[value].kind \in {"option", "list", "config"}

\* the fields ConfigMeta.__new__ wraps, were it to ignore the underscore
WrappedFields_Internal(sc, body) ==
    {nm \in DOMAIN body : IsSchemaObject(sc, body[nm])}

\* the fields ConfigMeta.__new__ wraps into a Binding
WrappedFields(sc, body) ==
    {nm \in DOMAIN body : nm[1] # "_" /\ IsSchemaObject(sc, body[nm])}

\* ConfigMeta.__new__ for the class body `body` (field name -> value)
MetaNew(sc, id, body) ==
    IF \E nm \in DOMAIN body : Len(nm) = 1 /\ nm[1] \in Reserved
    THEN [sc |-> sc, ok |-> FALSE]
    ELSE DeclareClass(sc, id,
                      [a \in DeclNames |->
                         IF \E nm \in WrappedFields(sc, body) : nm[Len(nm)] = a
                         THEN body[CHOOSE nm \in WrappedFields(sc, body) :
                                       nm[Len(nm)] = a]
                         ELSE 0],
                      "missing")

\* ListOption.__init__(items=[...]): tuple mode; 0 is a None position
NewTupleOption(sc, id, items) ==
    [n \in Nodes |->
        IF n = id
        THEN [NoNode EXCEPT !.kind = "list", !.dflt = "unset",
                            !.cache = NoneCache, !.seq = items]
        ELSE IF \E i \in 1..Len(items) : items[i] = n
        THEN [sc[n] EXCEPT !.parents = @ \cup {id}]
        ELSE sc[n]]

\* an Option, and an Option with its own key, an empty Config subclass or a
\* ListOption without items
DeclInit ==
    /\ \E second \in {NewOption("unset", "y"),
                     [NoNode EXCEPT !.kind = "config", !.cache = NoneCache],
                     [NoNode EXCEPT !.kind = "list", !.dflt = "unset",
                                    !.cache = NoneCache]} :
          sch = [n \in Nodes |-> IF n = 1 THEN NewOption("value", "")
                                 ELSE IF n = 2 THEN second ELSE NoNode]
    /\ heap = <<>>
    /\ cows = <<>>
    /\ inst = NoInst
    /\ nops = 0
    /\ fs = NoFiles /\ inv = NoInv /\ mrg = NoMerge /\ gen = NoGen /\ call = NoCall /\ log = <<>>
    /\ lastOp = [op |-> "init", n |-> 0, ok |-> TRUE, body |-> <<>>,
                 items |-> <<>>]

DeclBody(body) ==
    /\ NextNode(sch) # 0
    /\ sch' = MetaNew(sch, NextNode(sch), body).sc
    /\ lastOp' = [op |-> "declare", n |-> NextNode(sch),
                  ok |-> MetaNew(sch, NextNode(sch), body).ok,
                  body |-> body, items |-> <<>>]
    /\ UNCHANGED <<gen, call, log, mrg, inv, fs, heap, cows, inst, nops>>

DeclTuple(items) ==
    /\ NextNode(sch) # 0
    /\ sch' = NewTupleOption(sch, NextNode(sch), items)
    /\ lastOp' = [op |-> "tuple", n |-> NextNode(sch), ok |-> TRUE,
                  body |-> <<>>, items |-> items]
    /\ UNCHANGED <<gen, call, log, mrg, inv, fs, heap, cows, inst, nops>>

DeclList(item) ==
    /\ NextNode(sch) # 0
    /\ sch' = NewListOption(sch, NextNode(sch), item)
    /\ lastOp' = [op |-> "list", n |-> NextNode(sch), ok |-> TRUE,
                  body |-> <<>>, items |-> <<item>>]
    /\ UNCHANGED <<gen, call, log, mrg, inv, fs, heap, cows, inst, nops>>

DeclNext ==
    \/ \E names \in SUBSET BodyNames :
          \E body \in [names -> {0} \cup Existing(sch)] : DeclBody(body)
    \/ \E k \in 0..MaxItems :
          \E items \in [1..k -> {0} \cup Existing(sch)] : DeclTuple(items)
    \/ \E item \in Existing(sch) : DeclList(item)

SpecDecl == DeclInit /\ [][DeclNext]_vars

\* C34: after a class is declared, the parent set of every Option or class
\* it wrapped into a Binding contains the new class, while an object that
\* is only assigned to internal fields (name starting with an underscore),
\* and every object not assigned at all, is bound nowhere and has the parent
\* set it had; plain values are bound nowhere.  After a ListOption is
\* constructed the parent set of each item that is not None contains it.
C34_ParentsRegistered ==
    [][LET body == lastOp'.body
           new == lastOp'.n
           items == lastOp'.items
           public == {nm \in DOMAIN body : nm[1] # "_"}
           declared == lastOp'.op = "declare" /\ lastOp'.ok
           listed == lastOp'.op \in {"tuple", "list"}
       IN  /\ declared =>
                 \A nm \in public :
                     IF body[nm] # 0
                     THEN /\ new \in sch'[body[nm]].parents
                          /\ sch'[new].attrs[nm[1]].option = body[nm]
                     ELSE sch'[new].attrs[nm[1]] = NoB
           /\ declared =>
                 \A a \in DeclNames :
                     <<a>> \notin public => sch'[new].attrs[a] = NoB
           /\ declared =>
                 \A n \in Existing(sch) :
                     (\A nm \in public : body[nm] # n) => sch'[n] = sch[n]
           /\ listed =>
                 \A n \in Existing(sch) :
                     IF \E i \in 1..Len(items) : items[i] = n
                     THEN sch'[n].parents = sch[n].parents \cup {new}
                     ELSE sch'[n] = sch[n]]_vars

\* a class whose field x holds option 1, whose internal field _x holds
\* object 2 and whose field y holds a plain value
C34_Witness ==
    /\ lastOp.op = "declare"
    /\ lastOp.ok
    /\ DOMAIN lastOp.body = {<<"x">>, <<"y">>, <<"_", "x">>}
    /\ lastOp.body[<<"x">>] = 1
    /\ lastOp.body[<<"_", "x">>] = 2
    /\ lastOp.body[<<"y">>] = 0
    /\ sch[1].parents = {3}
    /\ sch[2].parents = {}

----------------------------------------------------------------------------
(* utils.backoff: the generator of trial numbers with exponential sleeps *)

MaxTries == 9

Stop == -1                               \* StopIteration
Yield(i) == [e |-> "yield", v |-> i]     \* the generator hands out trial i
Sleep(s) == [e |-> "sleep", v |-> s]     \* time.sleep(s)

\* sleep <<= 1
ShiftLeft_Same(sleep) == sleep
ShiftLeft(sleep) == sleep * 2

\* a generator object before its first next(): sleep = 1 is the first
\* statement of the body, it runs with the first next()
BackoffNew(max_tries) ==
    [pc |-> "new", max_tries |-> max_tries, i |-> 0, sleep |-> 1]

\* next() on the generator: the body runs to its next yield or to its end
BackoffResume(g, lg) ==
    IF g.pc = "new"
    THEN IF 0 < g.max_tries
         THEN [g |-> [g EXCEPT !.pc = "yield"],
               log |-> Append(lg, Yield(0)), out |-> 0]
         ELSE [g |-> [g EXCEPT !.pc = "done"], log |-> lg, out |-> Stop]
    ELSE IF g.pc = "yield"
    THEN IF g.i + 1 < g.max_tries
         THEN [g |-> [g EXCEPT !.i = g.i + 1, !.sleep = ShiftLeft(g.sleep)],
               log |-> Append(Append(lg, Sleep(g.sleep)), Yield(g.i + 1)),
               out |-> g.i + 1]
         ELSE [g |-> [g EXCEPT !.pc = "done", !.sleep = ShiftLeft(g.sleep)],
               log |-> Append(lg, Sleep(g.sleep)), out |-> Stop]
    ELSE [g |-> g, log |-> lg, out |-> Stop]

\* the consumer leaves its loop: the suspended generator is closed
BackoffAbandon(g) ==
    IF g.pc \in {"new", "yield"} THEN [g EXCEPT !.pc = "closed"] ELSE g

TriesArgs == -1..MaxTries

BackoffInit ==
    /\ gen \in {BackoffNew(max_tries) : max_tries \in TriesArgs}
    /\ log = <<>>
    /\ call = NoCall
    /\ heap = <<>>
    /\ cows = <<>>
    /\ inst = NoInst
    /\ sch = NoSchema
    /\ fs = NoFiles /\ inv = NoInv /\ mrg = NoMerge
    /\ nops = 0
    /\ lastOp = [op |-> "init", out |-> Stop]

BackoffNext ==
    /\ gen.pc \in {"new", "yield"}
    /\ gen' = BackoffResume(gen, log).g
    /\ log' = BackoffResume(gen, log).log
    /\ lastOp' = [op |-> "next", out |-> BackoffResume(gen, log).out]
    /\ UNCHANGED <<call, mrg, inv, fs, heap, cows, inst, sch, nops>>

BackoffClose ==
    /\ gen.pc \in {"new", "yield"}
    /\ gen' = BackoffAbandon(gen)
    /\ lastOp' = [op |-> "close", out |-> Stop]
    /\ UNCHANGED <<call, log, mrg, inv, fs, heap, cows, inst, sch, nops>>

BackoffSteps == BackoffNext \/ BackoffClose

SpecBackoff == BackoffInit /\ [][BackoffSteps]_vars

RECURSIVE Pow2(_)
Pow2(n) == IF n <= 0 THEN 1 ELSE 2 * Pow2(n - 1)

Yields(lg) == SelectSeq(lg, LAMBDA ev : ev.e = "yield")

\* C29: the generator yields 0, 1, ..., max_tries-1 in increasing order and
\* then stops; nothing is slept before trial 0, and between trial i-1 and
\* trial i exactly one sleep of 2^(i-1) seconds happens.
C29_BackoffTrials ==
    /\ \A j \in 1..Len(Yields(log)) : Yields(log)[j].v = j - 1
    /\ Len(Yields(log)) <= (IF gen.max_tries > 0 THEN gen.max_tries ELSE 0)
    /\ gen.pc = "done" =>
           Len(Yields(log)) = (IF gen.max_tries > 0 THEN gen.max_tries ELSE 0)
    /\ \A j \in 1..Len(log) :
           log[j].e = "yield" =>
               IF log[j].v = 0
               THEN j = 1
               ELSE /\ j >= 3
                    /\ log[j - 1] = Sleep(Pow2(log[j].v - 1))
                    /\ log[j - 2] = Yield(log[j].v - 1)
    /\ lastOp.op = "next" /\ lastOp.out = Stop => gen.pc = "done"

C29_Witness ==
    /\ gen.pc = "done"
    /\ gen.max_tries = 4
    /\ Yields(log) = <<Yield(0), Yield(1), Yield(2), Yield(3)>>
    /\ Len(SelectSeq(log, LAMBDA ev : ev.e = "sleep")) = 4

----------------------------------------------------------------------------
(* Environment.__call__: run a command, retrying with backoff *)

MaxCode == 2

ReturnCodes == 0..MaxCode
Run(rc) == [e |-> "run", v |-> rc]          \* Popen, communicate, ExecResult
Retry(rc) == [e |-> "retry", v |-> rc]      \* retry(result) is called
Answer(b) == [e |-> "answer", v |-> IF b THEN 1 ELSE 0]  \* what it returns
Warn == [e |-> "warn", v |-> 0]             \* "Unable to retry"

\* if not retry or max_tries < 1: max_tries = 1
SanityCheck_RetryOnly(retry, max_tries) == IF ~retry THEN 1 ELSE max_tries
SanityCheck(retry, max_tries) ==
    IF ~retry \/ max_tries < 1 THEN 1 ELSE max_tries

\* ExecResult.__nonzero__
Succeeded(rc) == rc = 0

EnvInit ==
    /\ call = [NoCall EXCEPT !.pc = "idle"]
    /\ gen = NoGen
    /\ log = <<>>
    /\ heap = <<>>
    /\ cows = <<>>
    /\ inst = NoInst
    /\ sch = NoSchema
    /\ fs = NoFiles /\ inv = NoInv /\ mrg = NoMerge
    /\ nops = 0
    /\ lastOp = [op |-> "init", out |-> Stop]

\* the call is made: arguments checked, the backoff generator created
EnvCall(retry, max_tries, do_raise) ==
    /\ call.pc = "idle"
    /\ call' = [pc |-> "for", retry |-> retry, arg |-> max_tries,
                max_tries |-> SanityCheck(retry, max_tries),
                do_raise |-> do_raise, trial |-> 0, result |-> Unbound,
                outcome |-> "none"]
    /\ gen' = BackoffNew(SanityCheck(retry, max_tries))
    /\ lastOp' = [op |-> "call", out |-> max_tries]
    /\ UNCHANGED <<log, mrg, inv, fs, heap, cows, inst, sch, nops>>

\* for trial in utils.backoff(max_tries): ... else: warn
EnvTrial ==
    /\ call.pc = "for"
    /\ gen' = BackoffResume(gen, log).g
    /\ IF BackoffResume(gen, log).out = Stop
       THEN /\ log' = Append(BackoffResume(gen, log).log, Warn)
            /\ call' = [call EXCEPT !.pc = "end"]
       ELSE /\ log' = BackoffResume(gen, log).log
            /\ call' = [call EXCEPT !.pc = "popen",
                                    !.trial = BackoffResume(gen, log).out]
    /\ lastOp' = [op |-> "trial", out |-> BackoffResume(gen, log).out]
    /\ UNCHANGED <<mrg, inv, fs, heap, cows, inst, sch, nops>>

\* the command runs and ends with return code rc
EnvPopen(rc) ==
    /\ call.pc = "popen"
    /\ log' = Append(log, Run(rc))
    /\ IF call.retry /\ ~Succeeded(rc)
       THEN /\ call' = [call EXCEPT !.pc = "retry", !.result = rc]
            /\ gen' = gen
       ELSE /\ call' = [call EXCEPT !.pc = "end", !.result = rc]
            /\ gen' = BackoffAbandon(gen)
    /\ lastOp' = [op |-> "popen", out |-> rc]
    /\ UNCHANGED <<mrg, inv, fs, heap, cows, inst, sch, nops>>

\* retry(result) answers: continue, or break
EnvRetry(again) ==
    /\ call.pc = "retry"
    /\ log' = log \o <<Retry(call.result), Answer(again)>>
    /\ IF again
       THEN /\ call' = [call EXCEPT !.pc = "for"]
            /\ gen' = gen
       ELSE /\ call' = [call EXCEPT !.pc = "end"]
            /\ gen' = BackoffAbandon(gen)
    /\ lastOp' = [op |-> "retry", out |-> call.result]
    /\ UNCHANGED <<mrg, inv, fs, heap, cows, inst, sch, nops>>

\* if not result and do_raise: raise result; return result
EnvReturn ==
    /\ call.pc = "end"
    /\ call' = [call EXCEPT
                  !.pc = "done",
                  !.outcome = IF call.result = Unbound THEN "unbound"
                              ELSE IF ~Succeeded(call.result) /\ call.do_raise
                                   THEN "raised"
                                   ELSE "returned"]
    /\ lastOp' = [op |-> "return", out |-> call.result]
    /\ UNCHANGED <<gen, log, mrg, inv, fs, heap, cows, inst, sch, nops>>

EnvNext ==
    \/ \E retry \in BOOLEAN, max_tries \in TriesArgs, do_raise \in BOOLEAN :
           EnvCall(retry, max_tries, do_raise)
    \/ EnvTrial
    \/ \E rc \in ReturnCodes : EnvPopen(rc)
    \/ \E again \in BOOLEAN : EnvRetry(again)
    \/ EnvReturn

SpecEnv == EnvInit /\ [][EnvNext]_vars

Runs(lg) == SelectSeq(lg, LAMBDA ev : ev.e = "run")

\* C30: one call runs the command at most max_tries times when a retry
\* callable is given and max_tries >= 1 and exactly once otherwise; no
\* attempt follows one that succeeded or one for which the retry callable
\* returned false; the retry callable is called only with the failed result
\* of the attempt just made; and the result of the last attempt is the one
\* returned or raised, also when the tries are exhausted.
C30_RetryLoop ==
    call.pc # "idle" =>
        /\ (call.retry /\ call.arg >= 1) => Len(Runs(log)) <= call.arg
        /\ ~(call.retry /\ call.arg >= 1) => Len(Runs(log)) <= 1
        /\ \A j \in 1..Len(log) :
               /\ (log[j] = Run(0) \/ log[j] = Answer(FALSE)) =>
                      \A k \in (j + 1)..Len(log) :
                          log[k].e \notin {"run", "retry"}
               /\ log[j].e = "retry" =>
                      /\ ~Succeeded(log[j].v)
                      /\ j > 1
                      /\ log[j - 1] = Run(log[j].v)
        /\ call.pc = "done" =>
               /\ Len(Runs(log)) >= 1
               /\ ~(call.retry /\ call.arg >= 1) => Len(Runs(log)) = 1
               /\ call.result = Runs(log)[Len(Runs(log))].v
               /\ call.outcome = (IF ~Succeeded(call.result) /\ call.do_raise
                                  THEN "raised" ELSE "returned")
               /\ \/ Succeeded(call.result)
                  \/ ~call.retry
                  \/ log[Len(log)] = Answer(FALSE)
                  \/ /\ log[Len(log)] = Warn
                     /\ Len(Runs(log)) =
                            (IF call.arg >= 1 THEN call.arg ELSE 1)

C30_Witness ==
    /\ call.pc = "done"
    /\ call.retry
    /\ call.arg = 3
    /\ Runs(log) = <<Run(1), Run(1), Run(2)>>
    /\ log[Len(log)] = Warn
    /\ call.outcome = "raised"
    /\ call.result = 2

Sleeps(lg) == SelectSeq(lg, LAMBDA ev : ev.e = "sleep")

\* C39: sleeps happen only before a further attempt: when every attempt of
\* a call failed and asked for a retry until the max_tries trials were
\* consumed, exactly max_tries-1 sleeps were performed, and no sleep follows
\* the final attempt before the caller gives up.
C39_SleepsOnlyBeforeAttempts ==
    (call.pc # "idle" /\ Len(log) > 0 /\ log[Len(log)] = Warn) =>
        /\ Len(Runs(log)) = call.max_tries
        /\ Len(Sleeps(log)) = call.max_tries - 1
        /\ \A j \in 1..Len(log) :
               log[j].e = "sleep" =>
                   \E k \in (j + 1)..Len(log) : log[k].e = "run"

----------------------------------------------------------------------------
(* _merge_dict on object graphs: one step per work item of the queue.      *)
(* heap[1] is the destination root and heap[2] the source root; the dicts  *)
(* may contain themselves, each other, and the dicts of the other side.    *)

MaxDicts == 4

\* the scalar a dict may hold: 1 in odd dicts, 2 in even ones
ScalarOf(i) == S(2 - (i % 2))

\* a root holds under each key its scalar, itself or an inner dict; an inner
\* dict may lack a key or hold its scalar, and under "a" also the
\* destination root or an inner dict
RootDicts(i) ==
    [Keys -> {ScalarOf(i), D(i)} \cup {D(j) : j \in 3..MaxDicts}]
InnerDicts(i) ==
    { [a |-> x, b |-> y] :
        x \in {Absent, ScalarOf(i), D(1)} \cup {D(j) : j \in 3..MaxDicts},
        y \in {Absent, ScalarOf(i)} }
Graphs ==
    { [i \in 1..MaxDicts |-> IF i <= 2 THEN r[i] ELSE n[i]] :
        r \in RootDicts(1) \X RootDicts(2),
        n \in { f \in [3..MaxDicts -> UNION {InnerDicts(j) : j \in 3..MaxDicts}] :
                   \A j \in 3..MaxDicts : f[j] \in InnerDicts(j) } }

\* one round of `while queue`: the work item is popped and the keys of its
\* source dict are walked
MergeStep_Peek(m, order) ==
    LET work == Head(m.queue)
    IN  MergeItems(m, work.lhs, m.h[work.rhs], work.path, order)
MergeStep(m, order) ==
    LET work == Head(m.queue)
        m1 == [m EXCEPT !.queue = Tail(@)]
    IN  MergeItems(m1, work.lhs, m1.h[work.rhs], work.path, order)

\* the merge frame as the state MergeKey works on
Frame(c, h, f) ==
    [c |-> c, h |-> h, queue |-> f.queue, seen |-> f.seen, raised |-> f.raised]

GraphInit ==
    /\ heap \in Graphs
    /\ mrg = [NoMerge EXCEPT !.pc = "idle"]
    /\ cows = <<>>
    /\ lastOp = Op("init", 0, "a", Absent)
    /\ nops = 0
    /\ fs = NoFiles /\ inv = NoInv /\ gen = NoGen /\ call = NoCall /\ log = <<>>
    /\ inst = NoInst
    /\ sch = NoSchema

\* _merge_dict(lhs, rhs) is called: seen and queue hold the root pair
GraphCall(order) ==
    /\ mrg.pc = "idle"
    /\ mrg' = [pc |-> "loop",
               queue |-> MergeState(cows, heap, D(1), 2).queue,
               seen |-> MergeState(cows, heap, D(1), 2).seen,
               raised |-> <<>>, order |-> order, h0 |-> heap,
               worked |-> {}, twice |-> {}]
    /\ UNCHANGED <<heap, cows, lastOp, nops, gen, call, log, inv, fs, inst, sch>>

\* one round of the loop
GraphWork ==
    /\ mrg.pc = "loop"
    /\ mrg.queue # <<>>
    /\ mrg.raised = <<>>
    /\ heap' = MergeStep(Frame(cows, heap, mrg), mrg.order).h
    /\ mrg' = [mrg EXCEPT
                 !.queue = MergeStep(Frame(cows, heap, mrg), mrg.order).queue,
                 !.seen = MergeStep(Frame(cows, heap, mrg), mrg.order).seen,
                 !.raised = MergeStep(Frame(cows, heap, mrg), mrg.order).raised,
                 !.worked = @ \cup {<<Head(mrg.queue).lhs, Head(mrg.queue).rhs>>},
                 !.twice = @ \cup ({<<Head(mrg.queue).lhs, Head(mrg.queue).rhs>>}
                                   \cap mrg.worked)]
    /\ UNCHANGED <<cows, lastOp, nops, gen, call, log, inv, fs, inst, sch>>

\* the queue is empty, or ConfigException leaves the call
GraphReturn ==
    /\ mrg.pc = "loop"
    /\ mrg.queue = <<>> \/ mrg.raised # <<>>
    /\ mrg' = [mrg EXCEPT !.pc = "done"]
    /\ UNCHANGED <<heap, cows, lastOp, nops, gen, call, log, inv, fs, inst, sch>>

GraphNext ==
    \/ \E order \in KeyOrders : GraphCall(order)
    \/ GraphWork
    \/ GraphReturn

SpecGraph == GraphInit /\ [][GraphNext]_vars

\* the graphs in which each root contains itself under "a" and a dict under
\* "b", and every inner dict holds a dict under "a" and a scalar under "b":
\* each dict lies on a cycle or leads to one
CyclicGraphs ==
    { h \in Graphs :
        /\ \A i \in 1..2 : h[i]["a"] = D(i) /\ IsDict(h[i]["b"])
        /\ \A i \in 3..MaxDicts : IsDict(h[i]["a"]) /\ h[i]["b"] # Absent }

CyclicInit ==
    /\ heap \in CyclicGraphs
    /\ mrg = [NoMerge EXCEPT !.pc = "idle"]
    /\ cows = <<>>
    /\ lastOp = Op("init", 0, "a", Absent)
    /\ nops = 0
    /\ fs = NoFiles /\ inv = NoInv /\ gen = NoGen /\ call = NoCall /\ log = <<>>
    /\ inst = NoInst
    /\ sch = NoSchema

\* the loop runs on: no round waits for anything
SpecGraphFair == CyclicInit /\ [][GraphNext]_vars /\ WF_vars(GraphNext)

\* the value a key holds after one destination dict is merged with one
\* source dict: l is what the destination held and r what the source holds
Merge1(l, r) ==
    IF r = Absent THEN l
    ELSE IF l = Absent THEN r
    ELSE IF IsDict(l) THEN l
    ELSE r

WorkPairs(queue) == {<<queue[i].lhs, queue[i].rhs>> : i \in 1..Len(queue)}

\* C31: within one call each (destination dict, source dict) identity pair
\* is merged at most once; and when the destination root holds one dict L
\* under both keys and the source root one dict R under both keys, after a
\* merge that raised nothing both destination keys hold L and L holds the
\* merge of what L and R held (L being merged with no other dict).
C31_PairsMergedOnce ==
    /\ mrg.twice = {}
    /\ WorkPairs(mrg.queue) \cap mrg.worked = {}
    /\ Cardinality(WorkPairs(mrg.queue)) = Len(mrg.queue)
    /\ (mrg.pc = "done" /\ mrg.raised = <<>>) =>
          \A L, R \in 3..MaxDicts :
              (/\ \A k \in Keys : mrg.h0[1][k] = D(L) /\ mrg.h0[2][k] = D(R)
               /\ \A w \in mrg.worked : w[1] = D(L) => w[2] = R)
              => /\ \A k \in Keys : heap[1][k] = D(L)
                 /\ <<D(L), R>> \in mrg.worked
                 /\ \A k \in Keys :
                        heap[L][k] = Merge1(mrg.h0[L][k], mrg.h0[R][k])

C31_Witness ==
    /\ mrg.pc = "done"
    /\ mrg.raised = <<>>
    /\ mrg.h0[1] = [a |-> D(3), b |-> D(3)]
    /\ mrg.h0[2] = [a |-> D(4), b |-> D(4)]
    /\ mrg.h0[3] = [a |-> S(1), b |-> Absent]
    /\ mrg.h0[4] = [a |-> S(2), b |-> S(2)]
    /\ heap[3] = [a |-> S(2), b |-> S(2)]
    /\ mrg.worked = {<<D(1), 2>>, <<D(3), 4>>}

\* C38: deep merge terminates on every finite object graph, also when a
\* dict contains itself or is shared between keys or between destination
\* and source: every call reaches its end.
C38_MergeTerminates == <>(mrg.pc = "done")

\* a call that ended on a graph in which both roots contain themselves and
\* share one inner dict, which contains itself
C38_Witness ==
    /\ mrg.pc = "done"
    /\ mrg.h0[1] = [a |-> D(1), b |-> D(3)]
    /\ mrg.h0[2] = [a |-> D(2), b |-> D(3)]
    /\ mrg.h0[3]["a"] = D(3)
    /\ <<D(3), 3>> \in mrg.worked

====
